---- MODULE Spec2Model ----
(***************************************************************************)
(* Section and block-identifier resolution of foam-block-ids.              *)
(*                                                                         *)
(* The model follows packages/foam-vscode/src/core/services:               *)
(*   markdown-parser.ts        parse(): the hook pipeline around one walk  *)
(*   section-parser-plugin.ts  createSectionParserPlugin, which the file   *)
(*                             defines twice; `impl` says which of the two *)
(*                             definitions the build installed             *)
(* Strings are sequences of one-character strings, so that trimming, the   *)
(* block-id regular expressions and slugging are computed, not assumed.    *)
(***************************************************************************)
EXTENDS Integers, Sequences, FiniteSets, TLC

\* ------------------------------------------------------------------------
\* Bounds of the model
\* ------------------------------------------------------------------------
MaxBlocks == 3      \* top-level blocks of a document
MaxLevel == 2       \* deepest heading level of a document
MaxDefinitions == 3 \* reference definitions of a document
MaxUrl == 3         \* characters of the url of a definition
MaxEdge == 2        \* top-level blocks of a document of edge cases

\* ------------------------------------------------------------------------
\* Characters and strings
\* ------------------------------------------------------------------------
Undefined == <<"undefined">>

Digits == <<"0", "1", "2", "3", "4", "5", "6", "7", "8", "9">>

UpperChars == {"A"}

LowerChars == {"a", "i", "j", "p", "q", "v", "w", "x", "y", "z"}

\* \w of the regular expressions
WordChars == UpperChars \cup LowerChars \cup {"_"} \cup {Digits[i] : i \in 1..10}

\* \s of the regular expressions and of String.prototype.trim
IsSpace(c) == c \in {" ", "\n"}

RECURSIVE TrimLeft(_)
TrimLeft(s) ==
  IF s # <<>> /\ IsSpace(Head(s)) THEN TrimLeft(Tail(s)) ELSE s

RECURSIVE TrimRight(_)
TrimRight(s) ==
  IF s # <<>> /\ IsSpace(s[Len(s)]) THEN TrimRight(SubSeq(s, 1, Len(s) - 1)) ELSE s

Trim(s) == TrimLeft(TrimRight(s))

Includes(seq, x) == \E i \in 1..Len(seq) : seq[i] = x

Count(seq, x) == Cardinality({i \in 1..Len(seq) : seq[i] = x})

\* [\w.-] or [:\w.-], the characters of a block-id token
IsIdChar(c, colon) ==
  c \in WordChars \cup {".", "-"} \cup (IF colon THEN {":"} ELSE {})

\* length of the longest run of token characters that ends the string
RECURSIVE IdRun(_, _)
IdRun(s, colon) ==
  IF s # <<>> /\ IsIdChar(s[Len(s)], colon)
  THEN 1 + IdRun(SubSeq(s, 1, Len(s) - 1), colon)
  ELSE 0

\* text.match(/(?:^|\s)(\^[\w.-]+)\s*$/), with ':' in the class when colon:
\* found, match[1] (the token with its caret) and text.replace(regex, '')
MatchInlineId(s, colon) ==
  LET t == TrimRight(s)
      k == IdRun(t, colon)
      caret == Len(t) - k
      found == /\ k >= 1
               /\ caret >= 1
               /\ t[caret] = "^"
               /\ (caret = 1 \/ IsSpace(t[caret - 1]))
  IN  [found |-> found,
       id |-> IF found THEN SubSeq(t, caret, Len(t)) ELSE Undefined,
       rest |-> IF found THEN SubSeq(t, 1, caret - 2) ELSE s]

\* /^\^[\w.-]+$/.test(text)
IsFullLineId(s) ==
  /\ Len(s) >= 2
  /\ s[1] = "^"
  /\ IdRun(s, FALSE) = Len(s) - 1

\* blockId.substring(1)
Substring1(s) == SubSeq(s, 2, Len(s))

\* ------------------------------------------------------------------------
\* GithubSlugger (github-slugger, the Slug Generator)
\* ------------------------------------------------------------------------
Lower(c) == IF c = "A" THEN "a" ELSE c

\* the slug of a label before collision handling: lower case, characters
\* other than word characters, '-' and ' ' removed, every ' ' turned into '-'
RECURSIVE Slugify(_)
Slugify(s) ==
  IF s = <<>> THEN <<>>
  ELSE LET c == Lower(Head(s))
       IN  IF c = " " THEN <<"-">> \o Slugify(Tail(s))
           ELSE IF c \in WordChars \cup {"-"} THEN <<c>> \o Slugify(Tail(s))
           ELSE Slugify(Tail(s))

RECURSIVE NatToString(_)
NatToString(n) ==
  IF n < 10 THEN <<Digits[n + 1]>>
  ELSE NatToString(n \div 10) \o <<Digits[(n % 10) + 1]>>

\* the loop of slug(): while the candidate is taken, count one more
\* occurrence of the original slug and append the count
RECURSIVE SlugLoop(_, _, _)
SlugLoop(occ, original, slug) ==
  IF slug \in DOMAIN occ
  THEN LET n == occ[original] + 1
       IN  SlugLoop([occ EXCEPT ![original] = n], original,
                    original \o <<"-">> \o NatToString(n))
  ELSE [slug |-> slug, occurrences |-> (slug :> 0) @@ occ]

\* slugger.slug(value): the slug and the occurrences after the call
SluggerSlug(occ, value) == SlugLoop(occ, Slugify(value), Slugify(value))

\* slugger.reset()
SluggerReset == << >>

\* ------------------------------------------------------------------------
\* Positions and ranges
\* ------------------------------------------------------------------------
\* Position.create(line, character)
PositionCreate(line, character) == [line |-> line, character |-> character]

\* Range.create(startLine, startChar, endLine, endChar)
RangeCreate(sl, sc, el, ec) ==
  [start |-> PositionCreate(sl, sc), end |-> PositionCreate(el, ec)]

\* 1-indexed point of the syntax tree to 0-indexed position
astPointToFoamPosition(point) == PositionCreate(point.line - 1, point.column - 1)

\* 1-indexed position of the syntax tree to 0-indexed range
astPositionToFoamRange(pos) ==
  RangeCreate(pos.start.line - 1, pos.start.column - 1,
              pos.end.line - 1, pos.end.column - 1)

PosBefore(p, q) ==
  p.line < q.line \/ (p.line = q.line /\ p.character < q.character)

PosLeq(p, q) == p = q \/ PosBefore(p, q)

\* ------------------------------------------------------------------------
\* Documents and their syntax trees (the result of parser.parse(markdown))
\* ------------------------------------------------------------------------
\* the heading lines of the documents, as [text, gap]: the text after the
\* marker and the number of blank lines in front of the heading
HeadingLines == {[text |-> <<"a">>, gap |-> 0],
                 [text |-> <<"a">>, gap |-> 1],
                 [text |-> <<"A", " ", "^", "x">>, gap |-> 1]}

ParagraphTexts == {<<"p">>, <<"p", " ", "^", "y">>, <<"^", "z">>}

QuoteTexts == {<<"q", " ", "^", "w">>}

ListItems == {<< <<"i", " ", "^", "v">>, <<"j">> >>}

Block(kind, depth, text, gap, items) ==
  [kind |-> kind, depth |-> depth, text |-> text, gap |-> gap, items |-> items]

\* the top-level blocks a document is made of; every block other than a
\* heading is separated from the block above it by one blank line
Blocks ==
  {Block("heading", d, h.text, h.gap, <<>>) : d \in 1..MaxLevel, h \in HeadingLines}
  \cup {Block("paragraph", 0, t, 1, <<>>) : t \in ParagraphTexts}
  \cup {Block("blockquote", 0, t, 1, <<>>) : t \in QuoteTexts}
  \cup {Block("list", 0, <<>>, 1, it) : it \in ListItems}

\* two adjacent lists are one list
ValidDocument(doc) ==
  \A i \in 1..(Len(doc) - 1) : ~(doc[i].kind = "list" /\ doc[i + 1].kind = "list")

Documents ==
  {doc \in UNION {[1..n -> Blocks] : n \in 1..MaxBlocks} : ValidDocument(doc)}

RECURSIVE Repeat(_, _)
Repeat(x, n) == IF n = 0 THEN <<>> ELSE <<x>> \o Repeat(x, n - 1)

RECURSIVE JoinLines(_)
JoinLines(ls) ==
  IF Len(ls) = 0 THEN <<>>
  ELSE IF Len(ls) = 1 THEN ls[1]
  ELSE ls[1] \o <<"\n">> \o JoinLines(Tail(ls))

RECURSIVE Concat(_)
Concat(ls) == IF Len(ls) = 0 THEN <<>> ELSE ls[1] \o Concat(Tail(ls))

\* the source lines of a block, without the blank lines in front of it
BlockLines(b) ==
  CASE b.kind = "heading" -> << Repeat("#", b.depth) \o <<" ">> \o b.text >>
    [] b.kind = "paragraph" -> << b.text >>
    [] b.kind = "blockquote" -> << <<">", " ">> \o b.text >>
    [] b.kind = "list" -> [i \in 1..Len(b.items) |-> <<"-", " ">> \o b.items[i]]
    [] b.kind = "definition" ->
         << <<"[">> \o b.text \o <<"]", ":", " ", "u">> >>
           \o [i \in 1..Len(b.items) |-> <<" ", " ", "\"">> \o b.items[i] \o <<"\"">>]
    [] b.kind = "blank" -> <<>>
    [] b.kind = "quoteheading" ->
         << <<">", " ">> \o Repeat("#", b.depth) \o <<" ">> \o b.text >>
    [] b.kind = "nestedlist" ->
         << <<"-", " ">> \o b.items[1], <<" ", " ", "-", " ">> \o b.items[2] >>
    [] b.kind = "lazylist" ->
         [i \in 1..Len(b.items) |-> <<"-", " ">> \o b.items[i]] \o << b.text >>
    [] b.kind = "lazyquote" -> << <<">", " ">> \o b.text, b.items[1] >>

AstNode(type, depth, text, raw, sl, sc, el, ec, parent, index) ==
  [type |-> type, depth |-> depth, text |-> text, raw |-> raw,
   position |-> [start |-> [line |-> sl, column |-> sc],
                 end |-> [line |-> el, column |-> ec]],
   parent |-> parent, index |-> index]

\* the nodes of one top-level block in pre-order; `line` is the 1-indexed
\* line the block starts on, `first` the number of the nodes before it,
\* `index` the block's index among the children of the root (node 0)
BlockNodes(b, line, first, index) ==
  LET ls == BlockLines(b)
      raw == JoinLines(ls)
      last == line + Len(ls) - 1
      endCol == Len(ls[Len(ls)]) + 1
  IN  CASE b.kind = "heading" ->
             << AstNode("heading", b.depth, b.text, raw, line, 1, line, endCol, 0, index) >>
        [] b.kind = "paragraph" ->
             << AstNode("paragraph", 0, b.text, raw, line, 1, line, endCol, 0, index) >>
        [] b.kind = "blockquote" ->
             << AstNode("blockquote", 0, b.text, raw, line, 1, line, endCol, 0, index),
                AstNode("paragraph", 0, b.text, b.text, line, 3, line, endCol, first + 1, 0) >>
        [] b.kind = "list" ->
             << AstNode("list", 0, Concat(b.items), raw, line, 1, last, endCol, 0, index) >>
             \o [k \in 1..(2 * Len(b.items)) |->
                   LET i == (k + 1) \div 2
                       l == line + i - 1
                       e == Len(ls[i]) + 1
                   IN  IF k % 2 = 1
                       THEN AstNode("listItem", 0, b.items[i], ls[i], l, 1, l, e,
                                    first + 1, i - 1)
                       ELSE AstNode("paragraph", 0, b.items[i], b.items[i], l, 3, l, e,
                                    first + k, 0)]
        [] b.kind = "definition" ->
             << [label |-> b.text, url |-> <<"u">>,
                 title |-> IF b.items = <<>> THEN Undefined ELSE b.items[1]]
                  @@ AstNode("definition", 0, b.text, raw, line, 1, last, endCol, 0, index) >>
        [] b.kind = "blank" -> <<>>
        \* a heading inside a blockquote: it starts behind the quote marker
        [] b.kind = "quoteheading" ->
             << AstNode("blockquote", 0, b.text, raw, line, 1, line, endCol, 0, index),
                AstNode("heading", b.depth, b.text, SubSeq(raw, 3, Len(raw)),
                        line, 3, line, endCol, first + 1, 0) >>
        \* a list item with a list of one item below its paragraph
        [] b.kind = "nestedlist" ->
             << AstNode("list", 0, Concat(b.items), raw, line, 1, last, endCol, 0, index),
                AstNode("listItem", 0, b.items[1], raw, line, 1, last, endCol, first + 1, 0),
                AstNode("paragraph", 0, b.items[1], b.items[1],
                        line, 3, line, Len(ls[1]) + 1, first + 2, 0),
                AstNode("list", 0, b.items[2], SubSeq(ls[2], 3, Len(ls[2])),
                        last, 3, last, endCol, first + 2, 1),
                AstNode("listItem", 0, b.items[2], SubSeq(ls[2], 3, Len(ls[2])),
                        last, 3, last, endCol, first + 4, 0),
                AstNode("paragraph", 0, b.items[2], b.items[2],
                        last, 5, last, endCol, first + 5, 0) >>
        \* a list of two items whose last line is a lazy continuation line:
        \* the line belongs to the paragraph of the second item
        [] b.kind = "lazylist" ->
             LET lazy == b.items[2] \o <<"\n">> \o b.text
             IN  << AstNode("list", 0, b.items[1] \o lazy, raw, line, 1, last, endCol, 0, index),
                    AstNode("listItem", 0, b.items[1], ls[1],
                            line, 1, line, Len(ls[1]) + 1, first + 1, 0),
                    AstNode("paragraph", 0, b.items[1], b.items[1],
                            line, 3, line, Len(ls[1]) + 1, first + 2, 0),
                    AstNode("listItem", 0, lazy, ls[2] \o <<"\n">> \o b.text,
                            line + 1, 1, last, endCol, first + 1, 1),
                    AstNode("paragraph", 0, lazy, lazy,
                            line + 1, 3, last, endCol, first + 4, 0) >>
        \* a blockquote whose last line is a lazy continuation line
        [] b.kind = "lazyquote" ->
             LET lazy == b.text \o <<"\n">> \o b.items[1]
             IN  << AstNode("blockquote", 0, lazy, raw, line, 1, last, endCol, 0, index),
                    AstNode("paragraph", 0, lazy, lazy, line, 3, last, endCol, first + 1, 0) >>

\* parser.parse(markdown): the nodes in pre-order and the source lines;
\* the text ends with a newline, so the last line is empty
RECURSIVE ParseBlocks(_, _, _, _)
ParseBlocks(doc, i, nodes, lines) ==
  IF i > Len(doc) THEN [nodes |-> nodes, lines |-> lines \o << <<>> >>]
  ELSE LET b == doc[i]
           line == Len(lines) + b.gap + 1
       IN  ParseBlocks(doc, i + 1,
                       nodes \o BlockNodes(b, line, Len(nodes), i - 1),
                       lines \o Repeat(<<>>, b.gap) \o BlockLines(b))

ParseMarkdown(doc) == ParseBlocks(doc, 1, <<>>, <<>>)

\* ------------------------------------------------------------------------
\* Notes: documents with front matter, and the documents' identities
\* ------------------------------------------------------------------------
MaxBody == 2        \* top-level blocks below the front matter of a note

Null == <<"null">>

YamlTitle == <<"t", "i", "t", "l", "e">>

\* the texts of the front matter (the value of the yaml node), line by
\* line: 'title: T', 'title: ""', 'x: y' and the malformed 'title: ['
FrontMatters ==
  { << YamlTitle \o <<":", " ", "T">> >>,
    << YamlTitle \o <<":", " ", "\"", "\"">> >>,
    << <<"x", ":", " ", "y">> >>,
    << YamlTitle \o <<":", " ", "[">> >> }

NoFrontMatter == <<>>

\* the blocks below the front matter: level-1 headings with and without
\* a text, a level-2 heading, a paragraph with a block id
NoteBlocks ==
  { Block("heading", 1, <<"a">>, 0, <<>>),
    Block("heading", 1, <<>>, 0, <<>>),
    Block("heading", 2, <<"a">>, 1, <<>>),
    Block("paragraph", 0, <<"p", " ", "^", "y">>, 1, <<>>) }

Notes ==
  {[fm |-> f, blocks |-> b] :
     f \in FrontMatters \cup {NoFrontMatter},
     b \in UNION {[1..n -> NoteBlocks] : n \in 0..MaxBody}}

\* index of the first c in s at or after i, 0 when there is none
RECURSIVE IndexOf(_, _, _)
IndexOf(s, c, i) ==
  IF i > Len(s) THEN 0 ELSE IF s[i] = c THEN i ELSE IndexOf(s, c, i + 1)

\* index of the last c in s, 0 when there is none
RECURSIVE LastIndexOf(_, _)
LastIndexOf(s, c) ==
  IF s = <<>> THEN 0 ELSE IF s[Len(s)] = c THEN Len(s)
  ELSE LastIndexOf(SubSeq(s, 1, Len(s) - 1), c)

\* one 'key: value' line of a YAML mapping
YamlKey(line) == SubSeq(line, 1, IndexOf(line, ":", 1) - 1)

YamlValueText(line) == Trim(SubSeq(line, IndexOf(line, ":", 1) + 1, Len(line)))

\* s.split(sep)
RECURSIVE Split(_, _)
Split(s, sep) ==
  LET i == IndexOf(s, sep, 1)
  IN  IF i = 0 THEN <<s>>
      ELSE <<SubSeq(s, 1, i - 1)>> \o Split(SubSeq(s, i + 1, Len(s)), sep)

\* an array of strings: a marker, then the strings
Array(items) == <<"[]">> \o items

\* Array.isArray(v)
IsArray(v) == v # <<>> /\ v[1] = "[]"

\* a plain scalar, the empty string "", a flow sequence [a, b] or, for no
\* value, null
YamlValue(line) ==
  LET v == YamlValueText(line)
  IN  IF v = <<>> THEN Null
      ELSE IF v = <<"\"", "\"">> THEN <<>>
      ELSE IF v[1] = "[" /\ v[Len(v)] = "]"
      THEN LET items == Split(SubSeq(v, 2, Len(v) - 1), ",")
           IN  Array([k \in 1..Len(items) |-> Trim(items[k])])
      ELSE v

\* a flow sequence that is opened and not closed cannot be decoded
YamlLineOk(line) ==
  LET v == YamlValueText(line)
  IN  /\ IndexOf(line, ":", 1) > 1
      /\ ~(v # <<>> /\ v[1] = "[" /\ v[Len(v)] # "]")

\* parseYAML(value): whether it returns, and the mapping it returns
parseYAML(value) ==
  [ok |-> \A i \in 1..Len(value) : YamlLineOk(value[i]),
   properties |->
     [key \in {YamlKey(value[i]) : i \in 1..Len(value)} |->
        YamlValue(value[CHOOSE i \in 1..Len(value) : YamlKey(value[i]) = key])]]

FrontMatterFence == <<"-", "-", "-">>

FrontMatterLines(fm) ==
  IF fm = NoFrontMatter THEN <<>>
  ELSE <<FrontMatterFence>> \o fm \o <<FrontMatterFence>>

\* the yaml node of a front matter: the first child of the root
YamlNode(fm) ==
  [value |-> fm]
    @@ AstNode("yaml", 0, <<>>, JoinLines(FrontMatterLines(fm)),
               1, 1, Len(fm) + 2, 4, 0, 0)

\* parser.parse(markdown) with the frontmatter extension: the yaml node,
\* when there is a front matter, and the nodes of the blocks below it
ParseNote(note) ==
  LET first == IF note.fm = NoFrontMatter THEN <<>> ELSE <<YamlNode(note.fm)>>
      parsed == ParseBlocks(note.blocks, 1, first, FrontMatterLines(note.fm))
  IN  [nodes |->
         [k \in 1..Len(parsed.nodes) |->
            IF k > Len(first) /\ parsed.nodes[k].parent = 0
            THEN [parsed.nodes[k] EXCEPT !.index = @ + Len(first)]
            ELSE parsed.nodes[k]],
       lines |-> parsed.lines]

\* the documents' identities: '/n.md' and '/d/m.md'
Uris == { <<"/", "n", ".", "m", "d">>, <<"/", "d", "/", "m", ".", "m", "d">> }

NoUri == <<>>

\* uri.getName(): the last segment of the path, without its extension
getName(uri) ==
  LET base == SubSeq(uri, LastIndexOf(uri, "/") + 1, Len(uri))
      dot == LastIndexOf(base, ".")
  IN  IF dot > 1 THEN SubSeq(base, 1, dot - 1) ELSE base

\* ------------------------------------------------------------------------
\* The plugins of createMarkdownParser and their hooks
\* ------------------------------------------------------------------------
SectionPlugin == "unified-section-parser"

\* a list with the section plugin in front of the title plugin
PluginsSectionFirst ==
  <<SectionPlugin, "title", "wikilink", "definitions", "tags", "aliases", "extra">>

\* the built-in plugins in the order of the list, then one extra plugin
Plugins ==
  <<"title", "wikilink", "definitions", "tags", "aliases", SectionPlugin, "extra">>

\* the hooks each plugin defines; the extra plugin defines all of them
Hooks(p) ==
  CASE p = "title" -> {"visit", "onDidFindProperties", "onDidVisitTree"}
    [] p = "wikilink" -> {"visit"}
    [] p = "definitions" -> {"visit", "onDidVisitTree"}
    [] p = "tags" -> {"onDidFindProperties", "visit"}
    [] p = "aliases" -> {"onDidFindProperties"}
    [] p = SectionPlugin -> {"onWillVisitTree", "visit", "onDidVisitTree"}
    [] p = "extra" -> {"onWillParseMarkdown", "onWillVisitTree",
                       "onDidFindProperties", "visit", "onDidVisitTree"}

\* a fault: the hook of the plugin that throws whenever it is called
NoFault == [plugin |-> "none", hook |-> "none"]

Faults ==
  {[plugin |-> Plugins[i], hook |-> h] : i \in 1..Len(Plugins), h \in
     {"onWillParseMarkdown", "onWillVisitTree", "onDidFindProperties",
      "visit", "onDidVisitTree"}}

PossibleFaults == {f \in Faults : f.hook \in Hooks(f.plugin)}

\* the Resource parse returns
Resource(uri, title, properties, sections, aliases, definitions) ==
  [uri |-> uri, type |-> "note", properties |-> properties, title |-> title,
   sections |-> sections, aliases |-> aliases, definitions |-> definitions]

NoResource == Resource(NoUri, <<>>, << >>, <<>>, <<>>, <<>>)

\* ------------------------------------------------------------------------
\* State
\* ------------------------------------------------------------------------
VARIABLES
  impl,            \* which definition of createSectionParserPlugin is installed
  phase,           \* where parse() is: idle, willVisit, visiting, done
  markdown,        \* the source lines of the text being parsed
  tree,            \* the nodes of its syntax tree, in pre-order
  cursor,          \* the number of the next node the walk passes to visit (0: the root)
  sectionStack,    \* the plugin's stack of open headings
  occurrences,     \* the plugin's slugger: slug -> occurrences
  processedNodes,  \* the plugin's set of attributed nodes
  sections,        \* note.sections of the Resource being built
  uri,             \* the identity of the document being parsed
  source,          \* the text parse was called with, as a note
  fault,           \* the plugin hook that throws during this parse
  title,           \* note.title
  properties,      \* note.properties
  calls,           \* the hook invocations of this parse, in order
  warnings,        \* what this parse logged with Logger.warn
  cache,           \* the parser cache: uri -> [checksum, resource]
  returned,        \* the Resource the last call of parse returned
  aliases,         \* note.aliases
  definitions,     \* note.definitions
  formatted,       \* the text NoteLinkDefinition.format returned
  workspace,       \* the resources of the workspace: uri -> Resource
  document,        \* the text document of the editor
  collection,      \* the diagnostic collection: uri -> diagnostics
  actions,         \* the code actions the provider returned
  closures,        \* the closures of the section plugins of two parsers
  log              \* the calls of parse on the two parsers, in order

\* the state of the pipeline around the section plugin
pipeline == <<uri, source, fault, title, properties, calls, warnings, cache,
              returned, aliases, definitions>>

\* the state of the features around the parser
features == <<formatted, workspace, document, collection, actions, closures, log>>

vars == <<impl, phase, markdown, tree, cursor, sectionStack, occurrences,
          processedNodes, sections, uri, source, fault, title, properties,
          calls, warnings, cache, returned, aliases, definitions, formatted,
          workspace, document, collection, actions, closures, log>>

Impls == {"first", "second"}

\* the closure of a section plugin at its creation
FreshClosure == [stack |-> <<>>, occurrences |-> SluggerReset, processed |-> {}]

\* the two parser instances
Parsers == {1, 2}

\* no document in the editor
NoDocument == [uri |-> NoUri, languageId |-> "", links |-> <<>>]

\* ------------------------------------------------------------------------
\* Tree helpers (unist-util-visit, the arguments of the visit hook)
\* ------------------------------------------------------------------------
RECURSIVE IsAncestor(_, _, _)
IsAncestor(t, a, n) ==
  n # 0 /\ (t[n].parent = a \/ IsAncestor(t, a, t[n].parent))

\* the nodes visit(node, ...) calls back for: the node and its descendants
Subtree(t, n) == {n} \cup {m \in 1..Len(t) : IsAncestor(t, n, m)}

\* parent.children[index - 1]
PrevSibling(t, n) ==
  CHOOSE m \in 1..Len(t) : t[m].parent = t[n].parent /\ t[m].index = t[n].index - 1

\* the subtrees of the paragraph children of a list item
ParagraphChildren(t, n) ==
  UNION {Subtree(t, m) : m \in {k \in 1..Len(t) : t[k].parent = n /\ t[k].type = "paragraph"}}

\* getTextFromChildren(node): the text of the text nodes below the node
getTextFromChildren(t, n) == t[n].text

\* getListItemText(node): the text of the paragraphs of the list item
getListItemText(t, n) == t[n].text

\* getNodeText(node, markdown): the source text the node spans
getNodeText(t, n) == t[n].raw

\* tree.position.end: the end of the text, on its last (empty) line
TreeEnd(lines) == [line |-> Len(lines), column |-> 1]

Section(label, range, canonicalId, linkableIds) ==
  [label |-> label, range |-> range, canonicalId |-> canonicalId,
   linkableIds |-> linkableIds]

\* ------------------------------------------------------------------------
\* createSectionParserPlugin: headings
\* ------------------------------------------------------------------------
StackItem(label, level, start, blockId) ==
  [label |-> label, level |-> level, start |-> start, blockId |-> blockId]

\* linkableIds of a popped heading, first definition
HeadingLinkableIdsFirst(slug, popped) ==
  IF popped.blockId # Undefined
  THEN <<slug, popped.blockId, Substring1(popped.blockId)>>
  ELSE <<slug>>

\* linkableIds of a popped heading, second definition
HeadingLinkableIdsSecond(slug, popped) ==
  LET ids == <<slug, popped.label>>
      withId == IF Includes(ids, popped.blockId) THEN ids
                ELSE Append(ids, popped.blockId)
      noCaret == IF popped.blockId[1] = "^" THEN Substring1(popped.blockId)
                 ELSE popped.blockId
  IN  IF popped.blockId = Undefined THEN ids
      ELSE IF Includes(withId, noCaret) THEN withId
      ELSE Append(withId, noCaret)

HeadingLinkableIds(def, slug, popped) ==
  IF def = "first" THEN HeadingLinkableIdsFirst(slug, popped)
  ELSE HeadingLinkableIdsSecond(slug, popped)

\* while (endLine > popped.start.line && lines[endLine].trim() === '') endLine--
RECURSIVE TrimEndLine(_, _, _)
TrimEndLine(lines, endLine, startLine) ==
  IF endLine > startLine /\ Trim(lines[endLine + 1]) = <<>>
  THEN TrimEndLine(lines, endLine - 1, startLine)
  ELSE endLine

\* the end of the range of a heading closed by the heading starting at `start`
ClosedRangeEndFirst(popped, start, lines) == start

ClosedRangeEndSecond(popped, start, lines) ==
  PositionCreate(
    TrimEndLine(lines, IF start.line > 0 THEN start.line - 1 ELSE 0, popped.start.line),
    0)

\* the end of the range of a heading still open at the end of the walk
FinalRangeEndFirst(popped, fileEndPosition, lines) == fileEndPosition

FinalRangeEndSecond(popped, fileEndPosition, lines) ==
  PositionCreate(TrimEndLine(lines, fileEndPosition.line, popped.start.line), 0)

\* a range that runs one line past the place the heading is closed at
HeadingRangeEndPastBound(def, popped, bound, atEnd, lines) ==
  PositionCreate(bound.line + 1, 0)

HeadingRangeEnd(def, popped, bound, atEnd, lines) ==
  CASE def = "first" /\ ~atEnd -> ClosedRangeEndFirst(popped, bound, lines)
    [] def = "first" /\ atEnd -> FinalRangeEndFirst(popped, bound, lines)
    [] def = "second" /\ ~atEnd -> ClosedRangeEndSecond(popped, bound, lines)
    [] def = "second" /\ atEnd -> FinalRangeEndSecond(popped, bound, lines)

\* a slugger made anew for every popped heading
SlugOfFresh(st, popped) == SluggerSlug(SluggerReset, popped.label)

\* const slug = slugger.slug(popped.label), on the plugin's one slugger
SlugOf(st, popped) == SluggerSlug(st.occurrences, popped.label)

\* one turn of a pop loop: pop the top of the stack, slug its label and
\* push its Section; st is [stack, occurrences, sections]
PopSection(def, st, bound, atEnd, lines) ==
  LET popped == st.stack[Len(st.stack)]
      r == SlugOf(st, popped)
      end == HeadingRangeEnd(def, popped, bound, atEnd, lines)
  IN  [stack |-> SubSeq(st.stack, 1, Len(st.stack) - 1),
       occurrences |-> r.occurrences,
       sections |-> Append(st.sections,
          Section(popped.label,
                  RangeCreate(popped.start.line, popped.start.character,
                              end.line, end.character),
                  r.slug,
                  HeadingLinkableIds(def, r.slug, popped)))]

\* a pop test that leaves a heading of equal level open
ShouldPopStrict(top, level) == top.level > level

\* sectionStack[sectionStack.length - 1].level >= level
ShouldPop(top, level) == top.level >= level

\* the pop loop of the heading branch
RECURSIVE PopWhile(_, _, _, _, _)
PopWhile(def, st, level, start, lines) ==
  IF st.stack # <<>> /\ ShouldPop(st.stack[Len(st.stack)], level)
  THEN PopWhile(def, PopSection(def, st, start, FALSE, lines), level, start, lines)
  ELSE st

\* an end of walk that closes the innermost open heading only
PopAllOnce(def, st, fileEndPosition, lines) ==
  IF st.stack # <<>> THEN PopSection(def, st, fileEndPosition, TRUE, lines) ELSE st

\* an end of walk that closes the open headings from the outermost one
\* inwards, in the order of the document
RECURSIVE PopAllOuterFirst(_, _, _, _)
PopAllOuterFirst(def, st, fileEndPosition, lines) ==
  IF st.stack # <<>>
  THEN PopAllOuterFirst(def,
         [PopSection(def, [st EXCEPT !.stack = <<Head(@)>>],
                     fileEndPosition, TRUE, lines)
            EXCEPT !.stack = Tail(st.stack)],
         fileEndPosition, lines)
  ELSE st

\* the pop loop of onDidVisitTree
RECURSIVE PopAll(_, _, _, _)
PopAll(def, st, fileEndPosition, lines) ==
  IF st.stack # <<>>
  THEN PopAll(def, PopSection(def, st, fileEndPosition, TRUE, lines), fileEndPosition, lines)
  ELSE st

\* the second definition returns early on a level-1 heading on the first
\* line while nothing has been pushed or emitted
SkipsTitleHeading(def, node, st) ==
  /\ def = "second"
  /\ node.depth = 1
  /\ st.sections = <<>>
  /\ st.stack = <<>>
  /\ node.position.start.line = 1

\* the regular expression of the heading branch admits ':' in the first
\* definition only
HeadingIdColon(def) == def = "first"

\* a heading branch that also returns on a label the identifier left empty
HeadingBranchSkipsEmptyLabel(def, t, n, st, lines) ==
  LET node == t[n]
      level == node.depth
      text == getTextFromChildren(t, n)
      m == MatchInlineId(text, HeadingIdColon(def))
      blockId == IF m.found THEN m.id ELSE Undefined
      label == IF m.found THEN Trim(m.rest) ELSE text
      start == astPositionToFoamRange(node.position).start
      closed == PopWhile(def, st, level, start, lines)
  IN  IF text = <<>> \/ level = 0 \/ label = <<>> THEN st
      ELSE IF SkipsTitleHeading(def, node, st) THEN st
      ELSE [closed EXCEPT !.stack = Append(@, StackItem(label, level, start, blockId))]

\* a heading branch that runs its pop loop before it tests the label
HeadingBranchPopsFirst(def, t, n, st, lines) ==
  LET node == t[n]
      level == node.depth
      text == getTextFromChildren(t, n)
      m == MatchInlineId(text, HeadingIdColon(def))
      blockId == IF m.found THEN m.id ELSE Undefined
      label == IF m.found THEN Trim(m.rest) ELSE text
      start == astPositionToFoamRange(node.position).start
      closed == PopWhile(def, st, level, start, lines)
  IN  IF text = <<>> \/ level = 0 THEN closed
      ELSE IF SkipsTitleHeading(def, node, st) THEN st
      ELSE [closed EXCEPT !.stack = Append(@, StackItem(label, level, start, blockId))]

\* the heading branch of visit
HeadingBranch(def, t, n, st, lines) ==
  LET node == t[n]
      level == node.depth
      text == getTextFromChildren(t, n)
      m == MatchInlineId(text, HeadingIdColon(def))
      blockId == IF m.found THEN m.id ELSE Undefined
      label == IF m.found THEN Trim(m.rest) ELSE text
      start == astPositionToFoamRange(node.position).start
      closed == PopWhile(def, st, level, start, lines)
  IN  IF text = <<>> \/ level = 0 THEN st
      ELSE IF SkipsTitleHeading(def, node, st) THEN st
      ELSE [closed EXCEPT !.stack = Append(@, StackItem(label, level, start, blockId))]

\* ------------------------------------------------------------------------
\* createSectionParserPlugin: paragraphs and list items
\* bs is [sections, processed]
\* ------------------------------------------------------------------------
\* first definition: one branch for paragraphs and list items
BlockBranchFirst(t, n, bs) ==
  LET node == t[n]
      text == IF node.type = "listItem" THEN getListItemText(t, n)
              ELSE getTextFromChildren(t, n)
      m == MatchInlineId(text, TRUE)
      blockId == Substring1(m.id)
  IN  IF n \in bs.processed THEN bs
      ELSE IF m.found
      THEN [sections |-> Append(bs.sections,
              Section(Trim(m.rest), astPositionToFoamRange(node.position),
                      blockId, <<blockId>>)),
            processed |-> bs.processed \cup Subtree(t, n)]
      ELSE IF node.type = "listItem"
      THEN [sections |-> Append(bs.sections,
              Section(Trim(text), astPositionToFoamRange(node.position),
                      Undefined, <<>>)),
            processed |-> bs.processed \cup {n} \cup ParagraphChildren(t, n)]
      ELSE bs

\* second definition: is the node a full-line block id that attributes
\* its id to the sibling before it
FullLineApplies(t, n, bs) ==
  /\ t[n].type = "paragraph"
  /\ t[n].index > 0
  /\ n \notin bs.processed
  /\ IsFullLineId(Trim(getTextFromChildren(t, n)))
  /\ LET prev == PrevSibling(t, n)
     IN  \/ t[prev].type = "list" /\ prev \notin bs.processed
         \/ t[prev].type # "heading" /\ prev \notin bs.processed

\* second definition: the Section of the sibling before a full-line id
FullLineSection(t, n) ==
  LET prev == PrevSibling(t, n)
      blockIdWithCaret == Trim(getTextFromChildren(t, n))
      blockId == Substring1(blockIdWithCaret)
      label == Trim(getNodeText(t, prev))
      listStart == astPositionToFoamRange(t[prev].position).start.line
      blockIdLine == astPositionToFoamRange(t[n].position).start.line
  IN  IF t[prev].type = "list"
      THEN Section(label, RangeCreate(listStart, 0, blockIdLine, 0),
                   blockId, <<blockIdWithCaret, blockId>>)
      ELSE Section(label, astPositionToFoamRange(t[prev].position),
                   blockId, <<blockIdWithCaret, blockId>>)

FullLineBranch(t, n, bs) ==
  [sections |-> Append(bs.sections, FullLineSection(t, n)),
   processed |-> bs.processed \cup Subtree(t, PrevSibling(t, n)) \cup {n}]

\* second definition: inline block id at the end of a list item
ListItemBranchSecond(t, n, bs) ==
  LET text == getListItemText(t, n)
      m == MatchInlineId(text, FALSE)
      blockId == Substring1(m.id)
  IN  IF t[n].type = "listItem" /\ n \notin bs.processed /\ m.found
      THEN [sections |-> Append(bs.sections,
              Section(Trim(m.rest), astPositionToFoamRange(t[n].position),
                      blockId, <<m.id, blockId>>)),
            processed |-> bs.processed \cup {n} \cup ParagraphChildren(t, n)]
      ELSE bs

\* second definition: inline block id at the end of a paragraph
ParagraphBranchSecond(t, n, bs) ==
  LET text == getTextFromChildren(t, n)
      m == MatchInlineId(text, FALSE)
      blockId == Substring1(m.id)
  IN  IF t[n].type = "paragraph" /\ n \notin bs.processed /\ m.found
      THEN [sections |-> Append(bs.sections,
              Section(Trim(m.rest), astPositionToFoamRange(t[n].position),
                      blockId, <<blockId, m.id>>)),
            processed |-> bs.processed \cup {n}]
      ELSE bs

\* second definition: the three tests in the order of the code
BlockBranchSecond(t, n, bs) ==
  IF FullLineApplies(t, n, bs) THEN FullLineBranch(t, n, bs)
  ELSE ParagraphBranchSecond(t, n, ListItemBranchSecond(t, n, bs))

BlockBranch(def, t, n, bs) ==
  IF def = "first" THEN BlockBranchFirst(t, n, bs) ELSE BlockBranchSecond(t, n, bs)

\* note.sections.sort((a, b) => a.range.start.line - b.range.start.line):
\* a stable sort on the start line
RECURSIVE InsertByLine(_, _)
InsertByLine(sorted, s) ==
  IF sorted # <<>> /\ sorted[Len(sorted)].range.start.line > s.range.start.line
  THEN Append(InsertByLine(SubSeq(sorted, 1, Len(sorted) - 1), s), sorted[Len(sorted)])
  ELSE Append(sorted, s)

RECURSIVE SortSections(_)
SortSections(secs) ==
  IF secs = <<>> THEN <<>>
  ELSE InsertByLine(SortSections(SubSeq(secs, 1, Len(secs) - 1)), secs[Len(secs)])

\* ------------------------------------------------------------------------
\* parse(): the pipeline around the plugin
\* ------------------------------------------------------------------------
\* a parser that has parsed nothing
InitNote ==
  /\ impl \in Impls
  /\ phase = "idle"
  /\ markdown = <<>>
  /\ tree = <<>>
  /\ cursor = 1
  /\ sectionStack = <<>>
  /\ occurrences = SluggerReset
  /\ processedNodes = {}
  /\ sections = <<>>
  /\ uri = NoUri
  /\ source = [fm |-> NoFrontMatter, blocks |-> <<>>]
  /\ fault = NoFault
  /\ title = <<>>
  /\ properties = << >>
  /\ calls = <<>>
  /\ warnings = <<>>
  /\ cache = << >>
  /\ returned = NoResource
  /\ aliases = <<>>

\* an editor without a document and an empty workspace
InitEditor ==
  /\ workspace = << >>
  /\ document = NoDocument
  /\ collection = << >>
  /\ actions = <<>>

\* two parsers that have parsed nothing
InitParsers ==
  /\ closures = [i \in Parsers |-> FreshClosure]
  /\ log = <<>>

Init ==
  /\ InitNote
  /\ definitions = <<>>
  /\ formatted = Undefined
  /\ InitEditor
  /\ InitParsers

\* parse(uri, markdown) up to the construction of the note
BeginParse(doc) ==
  /\ LET parsed == ParseMarkdown(doc)
     IN  /\ markdown' = parsed.lines
         /\ tree' = parsed.nodes
  /\ sections' = <<>>
  /\ cursor' = 1
  /\ phase' = "willVisit"
  /\ UNCHANGED <<impl, sectionStack, occurrences, processedNodes>>
  /\ UNCHANGED pipeline
  /\ UNCHANGED features

\* the plugin's onWillVisitTree
OnWillVisitTree ==
  /\ phase = "willVisit"
  /\ occurrences' = SluggerReset
  /\ processedNodes' = {}
  /\ sectionStack' = <<>>
  /\ sections' = <<>>
  /\ phase' = "visiting"
  /\ UNCHANGED <<impl, markdown, tree, cursor>>
  /\ UNCHANGED pipeline
  /\ UNCHANGED features

\* the plugin's visit on a heading node
VisitHeading ==
  /\ phase = "visiting"
  /\ cursor <= Len(tree)
  /\ tree[cursor].type = "heading"
  /\ LET st == HeadingBranch(impl, tree, cursor,
                  [stack |-> sectionStack, occurrences |-> occurrences,
                   sections |-> sections], markdown)
     IN  /\ sectionStack' = st.stack
         /\ occurrences' = st.occurrences
         /\ sections' = st.sections
  /\ cursor' = cursor + 1
  /\ UNCHANGED <<impl, phase, markdown, tree, processedNodes>>
  /\ UNCHANGED pipeline
  /\ UNCHANGED features

\* the plugin's visit on a paragraph or list item node
VisitBlock ==
  /\ phase = "visiting"
  /\ cursor <= Len(tree)
  /\ tree[cursor].type \in {"paragraph", "listItem"}
  /\ LET bs == BlockBranch(impl, tree, cursor,
                  [sections |-> sections, processed |-> processedNodes])
     IN  /\ sections' = bs.sections
         /\ processedNodes' = bs.processed
  /\ cursor' = cursor + 1
  /\ UNCHANGED <<impl, phase, markdown, tree, sectionStack, occurrences>>
  /\ UNCHANGED pipeline
  /\ UNCHANGED features

\* the plugin's visit on any other node: no branch applies
VisitOther ==
  /\ phase = "visiting"
  /\ cursor <= Len(tree)
  /\ tree[cursor].type \notin {"heading", "paragraph", "listItem"}
  /\ cursor' = cursor + 1
  /\ UNCHANGED <<impl, phase, markdown, tree, sectionStack, occurrences,
                 processedNodes, sections>>
  /\ UNCHANGED pipeline
  /\ UNCHANGED features

\* the plugin's onDidVisitTree, after which parse returns the note
OnDidVisitTree ==
  /\ phase = "visiting"
  /\ cursor > Len(tree)
  /\ LET st == PopAll(impl,
                  [stack |-> sectionStack, occurrences |-> occurrences,
                   sections |-> sections],
                  astPointToFoamPosition(TreeEnd(markdown)), markdown)
     IN  /\ sectionStack' = st.stack
         /\ occurrences' = st.occurrences
         /\ sections' = SortSections(st.sections)
  /\ phase' = "done"
  /\ UNCHANGED <<impl, markdown, tree, cursor, processedNodes>>
  /\ UNCHANGED pipeline
  /\ UNCHANGED features

Next ==
  \/ phase = "idle" /\ \E doc \in Documents : BeginParse(doc)
  \/ OnWillVisitTree
  \/ VisitHeading
  \/ VisitBlock
  \/ VisitOther
  \/ OnDidVisitTree

Spec == Init /\ [][Next]_vars

\* ------------------------------------------------------------------------
\* The plugin on documents of edge cases: headings without a label, with
\* nothing but an identifier or inside a blockquote, nested lists, lists
\* and blockquotes that end with a lazy identifier line
\* ------------------------------------------------------------------------
EdgeHeadingTexts == {<<"a">>, <<>>, <<"^", "x">>}

EdgeBlocks ==
  {Block("heading", d, t, 0, <<>>) : d \in {1, 2}, t \in EdgeHeadingTexts}
  \cup {Block("paragraph", 0, <<"p">>, 1, <<>>),
        Block("quoteheading", 2, <<"a">>, 1, <<>>),
        Block("nestedlist", 0, <<>>, 1, << <<"i">>, <<"j">> >>),
        Block("nestedlist", 0, <<>>, 1,
              << <<"i", " ", "^", "v">>, <<"j", " ", "^", "w">> >>),
        Block("lazylist", 0, <<"^", "z">>, 1, << <<"i">>, <<"j">> >>),
        Block("lazyquote", 0, <<"q">>, 1, << <<"^", "z">> >>)}

ListKinds == {"list", "nestedlist", "lazylist"}

\* two adjacent lists are one list
ValidEdgeDocument(doc) ==
  \A i \in 1..(Len(doc) - 1) :
    ~(doc[i].kind \in ListKinds /\ doc[i + 1].kind \in ListKinds)

EdgeDocuments ==
  {doc \in UNION {[1..n -> EdgeBlocks] : n \in 1..MaxEdge} : ValidEdgeDocument(doc)}

NextEdge ==
  \/ phase = "idle" /\ \E doc \in EdgeDocuments : BeginParse(doc)
  \/ OnWillVisitTree
  \/ VisitHeading
  \/ VisitBlock
  \/ VisitOther
  \/ OnDidVisitTree

SpecEdge == Init /\ [][NextEdge]_vars

\* ------------------------------------------------------------------------
\* The plugin on documents whose identifiers hold every character of a
\* token, in each syntax of an identifier
\* ------------------------------------------------------------------------
\* a token of word characters, a dot, a hyphen and an underscore, and a
\* token with a colon
Tokens == {<<"^", "x", ".", "-", "_">>, <<"^", "x", ":", "y">>}

TokenBlocks ==
  {Block("heading", 2, <<"a", " ">> \o k, 0, <<>>) : k \in Tokens}
  \cup {Block("paragraph", 0, <<"p", " ">> \o k, 1, <<>>) : k \in Tokens}
  \cup {Block("paragraph", 0, k, 1, <<>>) : k \in Tokens}
  \cup {Block("list", 0, <<>>, 1, << <<"i", " ">> \o k >>) : k \in Tokens}
  \cup {Block("blockquote", 0, <<"q">>, 1, <<>>)}

TokenDocuments ==
  {doc \in UNION {[1..n -> TokenBlocks] : n \in 1..MaxEdge} : ValidEdgeDocument(doc)}

NextTokens ==
  \/ phase = "idle" /\ \E doc \in TokenDocuments : BeginParse(doc)
  \/ OnWillVisitTree
  \/ VisitHeading
  \/ VisitBlock
  \/ VisitOther
  \/ OnDidVisitTree

SpecTokens == Init /\ [][NextTokens]_vars

\* ------------------------------------------------------------------------
\* The plugins' hooks. w is the state a hook works on: the fields of the
\* note, the section plugin's closure, the invocations and the warnings
\* of this parse, and whether an exception has left parse
\* ------------------------------------------------------------------------
\* a visit that lets every level-1 heading set the title
TitleVisitAlways(t, n, w) ==
  IF t[n].type = "heading" /\ t[n].depth = 1
  THEN [w EXCEPT !.title = IF Len(getTextFromChildren(t, n)) > 0
                           THEN getTextFromChildren(t, n) ELSE w.title]
  ELSE w

\* titlePlugin.visit
TitleVisit(t, n, w) ==
  IF w.title = <<>> /\ t[n].type = "heading" /\ t[n].depth = 1
  THEN [w EXCEPT !.title = IF Len(getTextFromChildren(t, n)) > 0
                           THEN getTextFromChildren(t, n) ELSE w.title]
  ELSE w

\* titlePlugin.onDidFindProperties: props.title?.toString() ?? note.title
TitleOnDidFindProperties(props, w) ==
  [w EXCEPT !.title = IF YamlTitle \in DOMAIN props /\ props[YamlTitle] # Null
                      THEN props[YamlTitle] ELSE w.title]

\* titlePlugin.onDidVisitTree
TitleOnDidVisitTree(u, w) ==
  IF w.title = <<>> THEN [w EXCEPT !.title = getName(u)] ELSE w

\* an onWillVisitTree that leaves the slugger as the last parse left it
SectionOnWillVisitTreeKeepsSlugger(w) ==
  [w EXCEPT !.processed = {}, !.stack = <<>>, !.sections = <<>>]

\* the section plugin's onWillVisitTree
SectionOnWillVisitTree(w) ==
  [w EXCEPT !.occurrences = SluggerReset, !.processed = {}, !.stack = <<>>,
            !.sections = <<>>]

\* the section plugin's visit
SectionVisit(def, t, n, lines, w) ==
  IF t[n].type = "heading"
  THEN LET st == HeadingBranch(def, t, n,
                   [stack |-> w.stack, occurrences |-> w.occurrences,
                    sections |-> w.sections], lines)
       IN  [w EXCEPT !.stack = st.stack, !.occurrences = st.occurrences,
                     !.sections = st.sections]
  ELSE IF t[n].type \in {"paragraph", "listItem"}
  THEN LET bs == BlockBranch(def, t, n,
                   [sections |-> w.sections, processed |-> w.processed])
       IN  [w EXCEPT !.sections = bs.sections, !.processed = bs.processed]
  ELSE w

\* the section plugin's onDidVisitTree
SectionOnDidVisitTree(def, lines, w) ==
  LET st == PopAll(def,
              [stack |-> w.stack, occurrences |-> w.occurrences,
               sections |-> w.sections],
              astPointToFoamPosition(TreeEnd(lines)), lines)
  IN  [w EXCEPT !.stack = st.stack, !.occurrences = st.occurrences,
                !.sections = SortSections(st.sections)]

\* the extra plugin's onWillParseMarkdown: it returns the text without
\* its front matter
ExtraOnWillParseMarkdown(note) == [note EXCEPT !.fm = NoFrontMatter]

\* the front-matter keys of the aliases
YamlAlias == <<"a", "l", "i", "a", "s">>

YamlAliases == <<"a", "l", "i", "a", "s", "e", "s">>

\* aliasesPlugin.onDidFindProperties
AliasesOnDidFindProperties(props, t, n, w) ==
  IF YamlAlias \in DOMAIN props /\ props[YamlAlias] # Null
  THEN LET parts == Split(props[YamlAlias], ",")
           found == IF IsArray(props[YamlAlias]) THEN Tail(props[YamlAlias])
                    ELSE [k \in 1..Len(parts) |-> Trim(parts[k])]
       IN  [w EXCEPT !.aliases =
              @ \o [k \in 1..Len(found) |->
                      [title |-> found[k],
                       range |-> astPositionToFoamRange(t[n].position)]]]
  ELSE w

\* definitionsPlugin.visit
DefinitionsVisit(t, n, w) ==
  IF t[n].type = "definition"
  THEN [w EXCEPT !.definitions =
          Append(@, [label |-> t[n].label, url |-> t[n].url, title |-> t[n].title,
                     range |-> astPositionToFoamRange(t[n].position)])]
  ELSE w

\* the loop of getFoamDefinitions, last definition first
RECURSIVE FoamDefinitionsLoop(_, _, _, _)
FoamDefinitionsLoop(defs, i, previousLine, foamDefinitions) ==
  IF i = 0 \/ defs[i].range.start.line < previousLine - 2 THEN foamDefinitions
  ELSE FoamDefinitionsLoop(defs, i - 1, defs[i].range.end.line,
                           <<defs[i]>> \o foamDefinitions)

\* the same loop, measuring from the start of the definition below
RECURSIVE FoamDefinitionsLoopByStart(_, _, _, _)
FoamDefinitionsLoopByStart(defs, i, previousLine, foamDefinitions) ==
  IF i = 0 \/ defs[i].range.start.line < previousLine - 2 THEN foamDefinitions
  ELSE FoamDefinitionsLoopByStart(defs, i - 1, defs[i].range.start.line,
                                  <<defs[i]>> \o foamDefinitions)

getFoamDefinitionsByStart(defs, fileEndPoint) ==
  FoamDefinitionsLoopByStart(defs, Len(defs), fileEndPoint.line, <<>>)

\* getFoamDefinitions(defs, fileEndPoint)
getFoamDefinitions(defs, fileEndPoint) ==
  FoamDefinitionsLoop(defs, Len(defs), fileEndPoint.line, <<>>)

\* definitionsPlugin.onDidVisitTree
DefinitionsOnDidVisitTree(lines, w) ==
  [w EXCEPT !.definitions =
     getFoamDefinitions(@, astPointToFoamPosition(TreeEnd(lines)))]

\* what the hook h of plugin p does; cx is [def, uri, fault, tree, lines].
\* The notes hold no link, definition, tag or alias, so the hooks of the
\* wikilink, definitions, tags and aliases plugins find nothing to add,
\* and the extra plugin only observes.
HookEffect(cx, p, h, n, props, w) ==
  CASE h = "visit" /\ n = 0 -> w   \* the root: no plugin has a branch for it
    [] p = "title" /\ h = "visit" -> TitleVisit(cx.tree, n, w)
    [] p = "title" /\ h = "onDidFindProperties" -> TitleOnDidFindProperties(props, w)
    [] p = "title" /\ h = "onDidVisitTree" -> TitleOnDidVisitTree(cx.uri, w)
    [] p = "aliases" /\ h = "onDidFindProperties" ->
         AliasesOnDidFindProperties(props, cx.tree, n, w)
    [] p = "definitions" /\ h = "visit" -> DefinitionsVisit(cx.tree, n, w)
    [] p = "definitions" /\ h = "onDidVisitTree" -> DefinitionsOnDidVisitTree(cx.lines, w)
    [] p = SectionPlugin /\ h = "onWillVisitTree" -> SectionOnWillVisitTree(w)
    [] p = SectionPlugin /\ h = "visit" -> SectionVisit(cx.def, cx.tree, n, cx.lines, w)
    [] p = SectionPlugin /\ h = "onDidVisitTree" -> SectionOnDidVisitTree(cx.def, cx.lines, w)
    [] OTHER -> w

\* ------------------------------------------------------------------------
\* actualParser.parse: the dispatch of the hooks
\* ------------------------------------------------------------------------
\* handleError(plugin, fnName, uri, e): the warning it logs
handleError(p, fnName, u) ==
  [message |-> "Error while executing", fnName |-> fnName, plugin |-> p, file |-> u]

\* Logger.warn(`Error while parsing YAML for [uri]`, e)
YamlWarning(u) ==
  [message |-> "Error while parsing YAML", fnName |-> "parseYAML", plugin |-> "", file |-> u]

\* a dispatch that lets an exception of a visit hook leave parse
HookCaughtButVisit(fnName) ==
  fnName \in {"onWillParseMarkdown", "onWillVisitTree", "onDidFindProperties",
              "onDidVisitTree"}

\* the hooks whose call is wrapped in try / catch (e) { handleError(...) }
HookCaught(fnName) ==
  fnName \in {"onWillParseMarkdown", "onWillVisitTree", "onDidFindProperties",
              "visit", "onDidVisitTree"}

\* try { plugin.h?.(...) } catch (e) { handleError(plugin, h, uri, e) }
CallHook(cx, p, h, n, props, w) ==
  IF w.thrown \/ h \notin Hooks(p) THEN w
  ELSE LET called == [w EXCEPT !.calls =
                        Append(@, [plugin |-> p, hook |-> h, node |-> n])]
       IN  IF cx.fault = [plugin |-> p, hook |-> h]
           THEN IF HookCaught(h)
                THEN [called EXCEPT !.warnings = Append(@, handleError(p, h, cx.uri))]
                ELSE [called EXCEPT !.thrown = TRUE]
           ELSE HookEffect(cx, p, h, n, props, called)

\* for (const plugin of plugins) { try { plugin.h?.(...) } catch ... }
RECURSIVE HookLoop(_, _, _, _, _, _)
HookLoop(cx, h, n, props, i, w) ==
  IF i > Len(Plugins) \/ w.thrown THEN w
  ELSE CHOOSE r \in {HookLoop(cx, h, n, props, i + 1, x) :
                       x \in {CallHook(cx, Plugins[i], h, n, props, w)}} : TRUE

\* a yaml branch without the try around parseYAML: a malformed front
\* matter ends parse
YamlBranchUncaught(cx, n, w) ==
  IF parseYAML(cx.tree[n].value).ok
  THEN HookLoop(cx, "onDidFindProperties", n, parseYAML(cx.tree[n].value).properties, 1,
                [w EXCEPT !.properties = parseYAML(cx.tree[n].value).properties @@ @])
  ELSE [w EXCEPT !.thrown = TRUE]

\* if (node.type === 'yaml') { try { parseYAML ... } catch { Logger.warn } }
YamlBranch(cx, n, w) ==
  LET y == parseYAML(cx.tree[n].value)
  IN  IF y.ok
      THEN HookLoop(cx, "onDidFindProperties", n, y.properties, 1,
                    [w EXCEPT !.properties = y.properties @@ @])
      ELSE [w EXCEPT !.warnings = Append(@, YamlWarning(cx.uri))]

\* a callback that passes the node to the visit hooks before it decodes
\* the front matter
VisitCallbackVisitsFirst(cx, n, w) ==
  LET visited == HookLoop(cx, "visit", n, << >>, 1, w)
  IN  IF n # 0 /\ cx.tree[n].type = "yaml" /\ ~visited.thrown
      THEN YamlBranch(cx, n, visited) ELSE visited

\* the callback of visitWithAncestors on node n; node 0 is the root
VisitCallback(cx, n, w) ==
  HookLoop(cx, "visit", n, << >>, 1,
           IF n # 0 /\ cx.tree[n].type = "yaml" THEN YamlBranch(cx, n, w) ELSE w)

\* the state the hooks work on, and what they work with, in this state
Work ==
  [title |-> title, properties |-> properties, sections |-> sections,
   stack |-> sectionStack, occurrences |-> occurrences,
   processed |-> processedNodes, calls |-> calls, warnings |-> warnings,
   aliases |-> aliases, definitions |-> definitions, thrown |-> FALSE]

Context ==
  [def |-> impl, uri |-> uri, fault |-> fault, tree |-> tree, lines |-> markdown]

\* the state after the hooks have worked; an exception that was not
\* caught ends parse
Assign(w, next) ==
  /\ title' = w.title
  /\ properties' = w.properties
  /\ sections' = w.sections
  /\ sectionStack' = w.stack
  /\ occurrences' = w.occurrences
  /\ processedNodes' = w.processed
  /\ calls' = w.calls
  /\ warnings' = w.warnings
  /\ aliases' = w.aliases
  /\ definitions' = w.definitions
  /\ phase' = IF w.thrown THEN "thrown" ELSE next
  /\ UNCHANGED features

\* parse(uri, markdown) is called: the locals of the last call are gone,
\* the closure of the section plugin is as the last call left it
Parse(u, note, f) ==
  /\ uri' = u
  /\ source' = note
  /\ fault' = f
  /\ markdown' = ParseNote(note).lines
  /\ tree' = <<>>
  /\ cursor' = 0
  /\ title' = <<>>
  /\ properties' = << >>
  /\ sections' = <<>>
  /\ calls' = <<>>
  /\ warnings' = <<>>
  /\ returned' = NoResource
  /\ aliases' = <<>>
  /\ definitions' = <<>>
  /\ phase' = "willParse"
  /\ UNCHANGED <<impl, sectionStack, occurrences, processedNodes, cache>>
  /\ UNCHANGED features

\* the loop of onWillParseMarkdown: what a hook returns is dropped
OnWillParseMarkdownLoop ==
  /\ phase = "willParse"
  /\ Assign(HookLoop(Context, "onWillParseMarkdown", 0, << >>, 1, Work), "parse")
  /\ UNCHANGED <<impl, markdown, tree, cursor, uri, source, fault, cache, returned>>

\* const tree = parser.parse(markdown); const note = {...}
BuildTree ==
  /\ phase = "parse"
  /\ tree' = ParseNote(source).nodes
  /\ title' = <<>>
  /\ properties' = << >>
  /\ sections' = <<>>
  /\ aliases' = <<>>
  /\ definitions' = <<>>
  /\ phase' = "willVisit"
  /\ UNCHANGED <<impl, markdown, cursor, sectionStack, occurrences,
                 processedNodes, uri, source, fault, calls, warnings, cache,
                 returned>>
  /\ UNCHANGED features

\* the loop of onWillVisitTree
WillVisitTreeLoop ==
  /\ phase = "willVisit"
  /\ Assign(HookLoop(Context, "onWillVisitTree", 0, << >>, 1, Work), "visiting")
  /\ UNCHANGED <<impl, markdown, tree, cursor, uri, source, fault, cache, returned>>

\* a walk that does not descend into the children of a node
VisitNodeSkipsChildren ==
  /\ phase = "visiting"
  /\ cursor <= Len(tree)
  /\ Assign(VisitCallback(Context, cursor, Work), "visiting")
  /\ cursor' = IF cursor = 0 THEN 1
               ELSE CHOOSE m \in (cursor + 1)..(Len(tree) + 1) :
                      /\ m <= Len(tree) => ~IsAncestor(tree, cursor, m)
                      /\ \A k \in (cursor + 1)..(m - 1) : IsAncestor(tree, cursor, k)
  /\ UNCHANGED <<impl, markdown, tree, uri, source, fault, cache, returned>>

\* visitWithAncestors calls back for the next node, the root first
VisitNode ==
  /\ phase = "visiting"
  /\ cursor <= Len(tree)
  /\ Assign(VisitCallback(Context, cursor, Work), "visiting")
  /\ cursor' = cursor + 1
  /\ UNCHANGED <<impl, markdown, tree, uri, source, fault, cache, returned>>

\* the loop of onDidVisitTree
DidVisitTreeLoop ==
  /\ phase = "visiting"
  /\ cursor > Len(tree)
  /\ Assign(HookLoop(Context, "onDidVisitTree", 0, << >>, 1, Work), "return")
  /\ UNCHANGED <<impl, markdown, tree, cursor, uri, source, fault, cache, returned>>

\* return note
ReturnNote ==
  /\ phase = "return"
  /\ returned' = Resource(uri, title, properties, sections, aliases, definitions)
  /\ phase' = "done"
  /\ UNCHANGED <<impl, markdown, tree, cursor, sectionStack, occurrences,
                 processedNodes, sections, uri, source, fault, title,
                 properties, calls, warnings, cache, aliases, definitions>>
  /\ UNCHANGED features

\* one call of parse on a parser without a cache, with or without a fault
NextParse ==
  \/ phase = "idle" /\ \E u \in Uris, note \in Notes, f \in PossibleFaults \cup {NoFault} :
       Parse(u, note, f)
  \/ OnWillParseMarkdownLoop
  \/ BuildTree
  \/ WillVisitTreeLoop
  \/ VisitNode
  \/ DidVisitTreeLoop
  \/ ReturnNote

SpecParse == Init /\ [][NextParse]_vars

\* the notes a long-lived parser is called on again and again: with and
\* without a front matter
ReparseNotes ==
  {note \in Notes : note.fm \in {NoFrontMatter, << YamlTitle \o <<":", " ", "T">> >>}}

\* an onDidVisitTree of the section plugin that throws leaves headings on
\* the plugin's stack
ReparseFaults == {NoFault, [plugin |-> SectionPlugin, hook |-> "onDidVisitTree"]}

\* parse is called again when the call before it has returned
NextReparse ==
  \/ phase \in {"idle", "done"}
       /\ \E u \in Uris, note \in ReparseNotes, f \in ReparseFaults : Parse(u, note, f)
  \/ OnWillParseMarkdownLoop
  \/ BuildTree
  \/ WillVisitTreeLoop
  \/ VisitNode
  \/ DidVisitTreeLoop
  \/ ReturnNote

SpecReparse == Init /\ [][NextReparse]_vars

\* ------------------------------------------------------------------------
\* the walk over nested nodes
\* ------------------------------------------------------------------------
\* notes with lists and block quotes, whose nodes have children
WalkNotes ==
  {[fm |-> f, blocks |-> doc] :
     f \in {NoFrontMatter, << <<"x", ":", " ", "y">> >>},
     doc \in {d \in Documents :
                /\ Len(d) <= 2
                /\ \A i \in 1..Len(d) :
                     \/ d[i].kind \in {"list", "blockquote"}
                     \/ d[i] = Block("paragraph", 0, <<"p">>, 1, <<>>)
                     \/ d[i] = Block("heading", 1, <<"a">>, 0, <<>>)}}

\* one call of parse on a text with nested nodes
NextWalk ==
  \/ phase = "idle" /\ \E u \in Uris, note \in WalkNotes : Parse(u, note, NoFault)
  \/ OnWillParseMarkdownLoop
  \/ BuildTree
  \/ WillVisitTreeLoop
  \/ VisitNode
  \/ DidVisitTreeLoop
  \/ ReturnNote

SpecWalk == Init /\ [][NextWalk]_vars

\* ------------------------------------------------------------------------
\* notes with reference definitions
\* ------------------------------------------------------------------------
\* a definition of one line or of two (its title on the second line),
\* below 0 to 2 blank lines
DefinitionBlocks ==
  {Block("definition", 0, <<"a">>, g, t) : g \in 0..2, t \in {<<>>, << <<"t">> >>}}

\* 0 to 2 blank lines at the end of the text
BlankBlocks == {Block("blank", 0, <<>>, g, <<>>) : g \in 0..2}

DefinitionNotes ==
  {[fm |-> NoFrontMatter, blocks |-> d \o <<b>>] :
     d \in UNION {[1..n -> DefinitionBlocks] : n \in 1..MaxDefinitions},
     b \in BlankBlocks}

\* one call of parse on a text with reference definitions
NextDefinitions ==
  \/ phase = "idle"
       /\ \E note \in DefinitionNotes : Parse(<<"/", "n", ".", "m", "d">>, note, NoFault)
  \/ OnWillParseMarkdownLoop
  \/ BuildTree
  \/ WillVisitTreeLoop
  \/ VisitNode
  \/ DidVisitTreeLoop
  \/ ReturnNote

SpecDefinitions == Init /\ [][NextDefinitions]_vars

\* ------------------------------------------------------------------------
\* notes with aliases
\* ------------------------------------------------------------------------
\* the values of an alias key: one alias, two separated by a comma, a
\* list of two, none
AliasValues ==
  { <<" ", "x">>, <<" ", "x", ",", " ", "y">>, <<" ", "[", "x", ",", " ", "y", "]">>, <<>> }

AliasNotes ==
  {[fm |-> << key \o <<":">> \o v >>, blocks |-> b] :
     key \in {YamlAlias, YamlAliases}, v \in AliasValues,
     b \in UNION {[1..n -> NoteBlocks] : n \in 0..1}}

\* one call of parse on a text with aliases in its front matter
NextAliases ==
  \/ phase = "idle" /\ \E u \in Uris, note \in AliasNotes : Parse(u, note, NoFault)
  \/ OnWillParseMarkdownLoop
  \/ BuildTree
  \/ WillVisitTreeLoop
  \/ VisitNode
  \/ DidVisitTreeLoop
  \/ ReturnNote

SpecAliases == Init /\ [][NextAliases]_vars

\* ------------------------------------------------------------------------
\* NoteLinkDefinition.format
\* ------------------------------------------------------------------------
\* the strings over the characters cs of length 0 to n
RECURSIVE StringsUpTo(_, _)
StringsUpTo(cs, n) ==
  IF n = 0 THEN {<<>>}
  ELSE LET shorter == StringsUpTo(cs, n - 1)
       IN  shorter \cup {Append(t, c) : t \in shorter, c \in cs}

\* the definitions format is called on: urls with spaces at any place
FormatDefinitions ==
  {[label |-> l, url |-> u, title |-> t, range |-> Undefined] :
     l \in {<<"a">>, <<"A">>}, u \in StringsUpTo({"a", " "}, MaxUrl),
     t \in {Undefined, <<"t">>}}

\* NoteLinkDefinition.format(definition)
format(definition) ==
  LET url == IF (IndexOf(definition.url, " ", 1) - 1) > 0
             THEN <<"<">> \o definition.url \o <<">">>
             ELSE definition.url
      text == <<"[">> \o definition.label \o <<"]", ":", " ">> \o url
  IN  IF definition.title \notin {Undefined, <<>>}
      THEN text \o <<" ", "\"">> \o definition.title \o <<"\"">>
      ELSE text

\* a definition of the note is formatted
Format ==
  /\ phase = "idle"
  /\ definitions # <<>>
  /\ formatted = Undefined
  /\ formatted' = format(definitions[1])
  /\ UNCHANGED <<impl, phase, markdown, tree, cursor, sectionStack, occurrences,
                 processedNodes, sections>>
  /\ UNCHANGED pipeline
  /\ UNCHANGED <<workspace, document, collection, actions, closures, log>>

InitFormat ==
  /\ InitNote
  /\ definitions \in {<<d>> : d \in FormatDefinitions}
  /\ formatted = Undefined
  /\ InitEditor
  /\ InitParsers

NextFormat == Format

SpecFormat == InitFormat /\ [][NextFormat]_vars

\* ------------------------------------------------------------------------
\* cachedParser.parse
\* ------------------------------------------------------------------------
\* the characters of the texts
Alphabet ==
  <<"\n", " ", "#", "-", ":", "\"", "[", "^", "T", "a", "e", "i", "l", "p",
    "t", "x", "y">>

CharCode(c) == IndexOf(Alphabet, c, 1)

HashModulus == 65521

RECURSIVE HashFrom(_, _, _)
HashFrom(text, i, h) ==
  IF i > Len(text) THEN h
  ELSE HashFrom(text, i + 1, (h * 31 + CharCode(text[i])) % HashModulus)

\* hash(markdown): a checksum of the characters of the text
hash(text) == HashFrom(text, 1, 7)

\* the text of a note, as parse receives it
NoteText(note) == JoinLines(ParseNote(note).lines)

ParserCacheEntry(checksum, resource) == [checksum |-> checksum, resource |-> resource]

\* the texts the cached parser is called on
CacheNotes == {note \in Notes : note.fm = NoFrontMatter /\ Len(note.blocks) <= 1}

\* a lookup that takes the entry of any uri with the checksum for a hit
CachedParseAnyUri(u, note) ==
  IF \E v \in DOMAIN cache : hash(NoteText(note)) = cache[v].checksum
  THEN /\ returned' = cache[CHOOSE v \in DOMAIN cache :
                              hash(NoteText(note)) = cache[v].checksum].resource
       /\ uri' = u
       /\ source' = note
       /\ fault' = NoFault
       /\ markdown' = ParseNote(note).lines
       /\ tree' = <<>>
       /\ cursor' = 1
       /\ title' = <<>>
       /\ properties' = << >>
       /\ sections' = <<>>
       /\ calls' = <<>>
       /\ warnings' = <<>>
       /\ aliases' = <<>>
       /\ definitions' = <<>>
       /\ phase' = "done"
       /\ UNCHANGED <<impl, sectionStack, occurrences, processedNodes, cache>>
       /\ UNCHANGED features
  ELSE Parse(u, note, NoFault)

\* a lookup that takes any entry of the uri for a hit
CachedParseIgnoresChecksum(u, note) ==
  IF u \in DOMAIN cache
  THEN /\ returned' = cache[u].resource
       /\ uri' = u
       /\ source' = note
       /\ fault' = NoFault
       /\ markdown' = ParseNote(note).lines
       /\ tree' = <<>>
       /\ cursor' = 1
       /\ title' = <<>>
       /\ properties' = << >>
       /\ sections' = <<>>
       /\ calls' = <<>>
       /\ warnings' = <<>>
       /\ aliases' = <<>>
       /\ definitions' = <<>>
       /\ phase' = "done"
       /\ UNCHANGED <<impl, sectionStack, occurrences, processedNodes, cache>>
       /\ UNCHANGED features
  ELSE Parse(u, note, NoFault)

\* cachedParser.parse up to the call of actualParser.parse: on a hit it
\* returns the Resource of the entry and no note is built
CachedParse(u, note) ==
  IF u \in DOMAIN cache /\ hash(NoteText(note)) = cache[u].checksum
  THEN /\ returned' = cache[u].resource
       /\ uri' = u
       /\ source' = note
       /\ fault' = NoFault
       /\ markdown' = ParseNote(note).lines
       /\ tree' = <<>>
       /\ cursor' = 1
       /\ title' = <<>>
       /\ properties' = << >>
       /\ sections' = <<>>
       /\ calls' = <<>>
       /\ warnings' = <<>>
       /\ aliases' = <<>>
       /\ definitions' = <<>>
       /\ phase' = "done"
       /\ UNCHANGED <<impl, sectionStack, occurrences, processedNodes, cache>>
       /\ UNCHANGED features
  ELSE Parse(u, note, NoFault)

\* a store that keeps the entry a uri already has
CacheSetOnce ==
  /\ phase = "return"
  /\ returned' = Resource(uri, title, properties, sections, aliases, definitions)
  /\ cache' = cache @@ (uri :> ParserCacheEntry(hash(NoteText(source)),
                                 Resource(uri, title, properties, sections, aliases, definitions)))
  /\ phase' = "done"
  /\ UNCHANGED <<impl, markdown, tree, cursor, sectionStack, occurrences,
                 processedNodes, sections, uri, source, fault, title,
                 properties, calls, warnings, aliases, definitions>>
  /\ UNCHANGED features

\* cachedParser.parse once actualParser.parse has returned:
\* cache.set(uri, { checksum: actualChecksum, resource }); return resource
CacheSet ==
  /\ phase = "return"
  /\ returned' = Resource(uri, title, properties, sections, aliases, definitions)
  /\ cache' = (uri :> ParserCacheEntry(hash(NoteText(source)),
                        Resource(uri, title, properties, sections, aliases, definitions))) @@ cache
  /\ phase' = "done"
  /\ UNCHANGED <<impl, markdown, tree, cursor, sectionStack, occurrences,
                 processedNodes, sections, uri, source, fault, title,
                 properties, calls, warnings, aliases, definitions>>
  /\ UNCHANGED features

\* calls of parse on a parser with a cache
NextCached ==
  \/ phase \in {"idle", "done"}
       /\ \E u \in Uris, note \in CacheNotes : CachedParse(u, note)
  \/ OnWillParseMarkdownLoop
  \/ BuildTree
  \/ WillVisitTreeLoop
  \/ VisitNode
  \/ DidVisitTreeLoop
  \/ CacheSet

SpecCached == Init /\ [][NextCached]_vars

\* ------------------------------------------------------------------------
\* Vocabulary of the properties
\* ------------------------------------------------------------------------
Walking == phase \in {"visiting", "done"}

HeadingStart(n) == astPositionToFoamRange(tree[n].position).start

\* the headings the heading branch pushes: those it does not return on
Pushable(n) ==
  /\ tree[n].type = "heading"
  /\ tree[n].text # <<>>
  /\ tree[n].depth # 0
  /\ ~(impl = "second" /\ tree[n].depth = 1 /\ tree[n].position.start.line = 1)

VisitedHeadings == {n \in 1..Len(tree) : Walking /\ n < cursor /\ Pushable(n)}

\* the later pushed headings whose level is at most the level of n
Closers(n) ==
  {m \in VisitedHeadings : m > n /\ tree[m].depth <= tree[n].depth}

OpenHeadings == {n \in VisitedHeadings : Closers(n) = {}}

ClosedHeadings == {n \in VisitedHeadings : Closers(n) # {}}

\* the heading that closes n: the first of its closers
Closer(n) == CHOOSE m \in Closers(n) : \A k \in Closers(n) : m <= k

\* m lies under the open heading n
NestedUnder(m, n) ==
  /\ n < m
  /\ \A k \in VisitedHeadings : (n < k /\ k <= m) => tree[k].depth > tree[n].depth

\* the emitted Sections that start where heading n starts
SectionsOf(n) ==
  {i \in 1..Len(sections) : sections[i].range.start = HeadingStart(n)}

HeadingSections ==
  {i \in 1..Len(sections) : \E n \in VisitedHeadings : i \in SectionsOf(n)}

HeadingOf(i) == CHOOSE n \in VisitedHeadings : i \in SectionsOf(n)

\* ------------------------------------------------------------------------
\* C1-C2: the heading stack
\* ------------------------------------------------------------------------
\* C1: in every reachable state the levels of the heading stack increase
\* strictly from bottom to top, so when a heading is pushed every entry
\* below it has a strictly smaller level.
StackLevelsIncrease ==
  \A i, j \in 1..Len(sectionStack) :
    i < j => sectionStack[i].level < sectionStack[j].level

\* a heading has just closed another one and was pushed above an open one
StackNestedAfterPop ==
  /\ phase = "visiting"
  /\ Len(sectionStack) >= 2
  /\ ClosedHeadings # {}

\* C2: every pushed heading is popped exactly once, by the first later
\* heading of at most its level or else at onDidVisitTree, and each pop
\* emits exactly one Section: during the walk the stack holds exactly the
\* headings no later heading has closed, every closed heading has one
\* Section and every open one none; a deeper heading leaves a shallower
\* one open; after onDidVisitTree the stack is empty and every heading has
\* exactly one Section.
HeadingsPoppedOnce ==
  /\ phase = "visiting" =>
       /\ Len(sectionStack) = Cardinality(OpenHeadings)
       /\ {sectionStack[i].start : i \in 1..Len(sectionStack)}
            = {HeadingStart(n) : n \in OpenHeadings}
       /\ \A n \in OpenHeadings : SectionsOf(n) = {}
       /\ \A n \in ClosedHeadings : Cardinality(SectionsOf(n)) = 1
  /\ phase = "done" =>
       /\ sectionStack = <<>>
       /\ \A n \in VisitedHeadings : Cardinality(SectionsOf(n)) = 1

\* a shallower heading is still open after a deeper one under it was closed
OuterOpenInnerClosed ==
  /\ phase = "visiting"
  /\ \E n \in OpenHeadings : \E m \in ClosedHeadings :
       NestedUnder(m, n) /\ tree[Closer(m)].depth > tree[n].depth

\* ------------------------------------------------------------------------
\* C3-C6: the ranges and the order of the Sections
\* ------------------------------------------------------------------------
\* C3: the Section of a heading closed by a later heading starts at the
\* closed heading's start and ends at column 0 of the line immediately
\* above the closing heading.
ClosedRangeEndsLineBefore ==
  \A n \in ClosedHeadings : \A i \in SectionsOf(n) :
    sections[i].range =
      RangeCreate(HeadingStart(n).line, HeadingStart(n).character,
                  HeadingStart(Closer(n)).line - 1, 0)

\* C4: after onDidVisitTree the Section of a heading that was still open
\* starts at the heading and its end line is not a blank line below the
\* heading line.
FinalRangeTrimmed ==
  phase = "done" =>
    \A n \in OpenHeadings : \A i \in SectionsOf(n) :
      /\ sections[i].range.start = HeadingStart(n)
      /\ ~(/\ sections[i].range.end.line > HeadingStart(n).line
           /\ Trim(markdown[sections[i].range.end.line + 1]) = <<>>)

\* C5: the sections of the returned Resource are in ascending order of
\* range start, by line and then by character.
SectionsSorted ==
  phase = "done" =>
    \A i, j \in 1..Len(sections) :
      i < j => PosLeq(sections[i].range.start, sections[j].range.start)

\* the ranges of two Sections, the first starting first, share a position
Overlap(i, j) == PosBefore(sections[j].range.start, sections[i].range.end)

\* C6 as stated: the Sections of headings never overlap.
HeadingSectionsDisjoint ==
  \A i, j \in HeadingSections :
    PosBefore(sections[i].range.start, sections[j].range.start) => ~Overlap(i, j)

\* C6, amended: the Sections of two headings overlap only when the later
\* heading is nested under the earlier one, and then the range of the
\* nested heading ends no later than the range of the outer heading.
HeadingSectionsNestOrDisjoint ==
  \A i, j \in HeadingSections :
    (PosBefore(sections[i].range.start, sections[j].range.start) /\ Overlap(i, j))
      => /\ NestedUnder(HeadingOf(j), HeadingOf(i))
         /\ PosLeq(sections[j].range.end, sections[i].range.end)

\* the returned Sections hold a nested pair of headings that overlap and
\* a pair of sibling headings that do not
NestedAndSiblingSections ==
  /\ phase = "done"
  /\ \E i, j \in HeadingSections :
       /\ PosBefore(sections[i].range.start, sections[j].range.start)
       /\ Overlap(i, j)
  /\ \E i, j \in HeadingSections :
       /\ PosBefore(sections[i].range.start, sections[j].range.start)
       /\ ~NestedUnder(HeadingOf(j), HeadingOf(i))

\* ------------------------------------------------------------------------
\* C7-C8: the identifiers of heading Sections
\* ------------------------------------------------------------------------
\* C7: within one parse, headings with the same label text, at any level,
\* get pairwise distinct canonicalId slugs.
SameLabelSlugsDistinct ==
  \A i, j \in HeadingSections :
    (i # j /\ sections[i].label = sections[j].label)
      => sections[i].canonicalId # sections[j].canonicalId

\* two headings of different levels with the same label have Sections
SameLabelAcrossLevels ==
  \E i, j \in HeadingSections :
    /\ i # j
    /\ sections[i].label = sections[j].label
    /\ tree[HeadingOf(i)].depth # tree[HeadingOf(j)].depth

\* the slug of a label, or that slug with a collision suffix
IsSlugOf(id, label) ==
  \/ id = Slugify(label)
  \/ \E k \in 1..Len(tree) : id = Slugify(label) \o <<"-">> \o NatToString(k)

\* the block id a heading line ends with, with its caret, or Undefined
HeadingBlockId(n) == MatchInlineId(tree[n].text, FALSE).id

\* C8: the linkableIds of a heading Section are the canonical slug, the
\* raw label and, when the heading ends with a block id, the id with and
\* without its caret, none of them twice; canonicalId is the slug.
HeadingLinkableIdsExact ==
  \A i \in HeadingSections :
    LET sec == sections[i]
        id == HeadingBlockId(HeadingOf(i))
        expected == {sec.canonicalId, sec.label}
                      \cup (IF id = Undefined THEN {} ELSE {id, Substring1(id)})
    IN  /\ IsSlugOf(sec.canonicalId, sec.label)
        /\ {sec.linkableIds[k] : k \in 1..Len(sec.linkableIds)} = expected
        /\ \A x \in expected : Count(sec.linkableIds, x) = 1

\* ------------------------------------------------------------------------
\* C9-C10: the Sections of block identifiers
\* ------------------------------------------------------------------------
\* the Sections with a canonicalId that no heading produced
BlockIdSections ==
  {i \in 1..Len(sections) :
     i \notin HeadingSections /\ sections[i].canonicalId # Undefined}

\* the block-id tokens of the document, each with its caret
DocumentBlockIds ==
  {MatchInlineId(tree[n].text, FALSE).id :
     n \in {k \in 1..Len(tree) : MatchInlineId(tree[k].text, FALSE).found}}

\* C9: the canonicalId of a Section produced from a block identifier is
\* the identifier without its caret, and its linkableIds hold the
\* identifier with and without the caret, each once.
BlockIdsBothSpellings ==
  \A i \in BlockIdSections :
    LET sec == sections[i]
    IN  /\ <<"^">> \o sec.canonicalId \in DocumentBlockIds
        /\ Count(sec.linkableIds, sec.canonicalId) = 1
        /\ Count(sec.linkableIds, <<"^">> \o sec.canonicalId) = 1

\* the walk stands at a paragraph that is a full-line identifier whose
\* sibling before it is no heading and is not attributed
AtFullLineId ==
  /\ phase = "visiting"
  /\ cursor <= Len(tree)
  /\ tree[cursor].type = "paragraph"
  /\ tree[cursor].index > 0
  /\ IsFullLineId(Trim(tree[cursor].text))
  /\ tree[PrevSibling(tree, cursor)].type # "heading"
  /\ PrevSibling(tree, cursor) \notin processedNodes

\* the text of a node as the text nodes below it give it, without a
\* trailing block id
NodeLabel(n) ==
  LET m == MatchInlineId(tree[n].text, FALSE)
  IN  IF m.found THEN Trim(m.rest) ELSE Trim(tree[n].text)

\* C10: visiting such a paragraph emits exactly one Section, for the
\* sibling before it: its label is the sibling's text, its range the
\* sibling's span, its canonicalId the identifier without the caret, and
\* the sibling and the identifier paragraph are both attributed.
FullLineIdAttributesSibling ==
  [][AtFullLineId =>
       LET prev == PrevSibling(tree, cursor)
           id == Trim(tree[cursor].text)
       IN  /\ Len(sections') = Len(sections) + 1
           /\ SubSeq(sections', 1, Len(sections)) = sections
           /\ sections'[Len(sections')].label = NodeLabel(prev)
           /\ sections'[Len(sections')].range = astPositionToFoamRange(tree[prev].position)
           /\ sections'[Len(sections')].canonicalId = Substring1(id)
           /\ {prev, cursor} \subseteq processedNodes']_vars

\* ------------------------------------------------------------------------
\* C11-C12: list items without an identifier, the heading on the first line
\* ------------------------------------------------------------------------
\* the list items no rule but the last one of the block branch handles:
\* they end with no block id and no full-line identifier follows their list
PlainListItems ==
  {n \in 1..Len(tree) :
     /\ tree[n].type = "listItem"
     /\ ~MatchInlineId(tree[n].text, TRUE).found
     /\ ~\E k \in 1..Len(tree) :
          /\ tree[k].type = "paragraph"
          /\ tree[k].parent = tree[tree[n].parent].parent
          /\ tree[k].index = tree[tree[n].parent].index + 1
          /\ IsFullLineId(Trim(tree[k].text))}

\* the emitted Sections whose range is the span of node n
SectionsSpanning(n) ==
  {i \in 1..Len(sections) :
     sections[i].range = astPositionToFoamRange(tree[n].position)}

\* C11: every list item without a block identifier that no other rule
\* handles has exactly one Section in the returned Resource, with the
\* item's own text as label, canonicalId undefined and no linkableIds.
PlainListItemsEmitted ==
  phase = "done" =>
    \A n \in PlainListItems :
      /\ Cardinality(SectionsSpanning(n)) = 1
      /\ \A i \in SectionsSpanning(n) :
           /\ sections[i].label = Trim(tree[n].text)
           /\ sections[i].canonicalId = Undefined
           /\ sections[i].linkableIds = <<>>

\* the headings of level 1 on the first line of the text, with a text
TitleHeadings ==
  {n \in 1..Len(tree) :
     /\ tree[n].type = "heading"
     /\ tree[n].depth = 1
     /\ tree[n].position.start.line = 1
     /\ tree[n].text # <<>>}

\* C12: a level-1 heading on the first line is emitted like any other
\* heading: the returned Resource holds exactly one Section that starts at
\* the heading, with the heading's text as label and its slug as
\* canonicalId.
TitleHeadingEmitted ==
  phase = "done" =>
    \A n \in TitleHeadings :
      /\ Cardinality(SectionsOf(n)) = 1
      /\ \A i \in SectionsOf(n) :
           /\ sections[i].label = NodeLabel(n)
           /\ IsSlugOf(sections[i].canonicalId, sections[i].label)

\* ------------------------------------------------------------------------
\* actualParser.parse as a function of its arguments and of the closure
\* of the section plugin it starts from
\* ------------------------------------------------------------------------
RECURSIVE VisitAll(_, _, _)
VisitAll(cx, n, w) ==
  IF n > Len(cx.tree) \/ w.thrown THEN w
  ELSE CHOOSE r \in {VisitAll(cx, n + 1, x) : x \in {VisitCallback(cx, n, w)}} : TRUE

\* actualParser.parse, from the lines and the tree of the text; every
\* loop works on the value the loop before it has left
ParseTree(def, u, parsed, f, closure) ==
  LET before == [def |-> def, uri |-> u, fault |-> f, tree |-> <<>>,
                 lines |-> parsed.lines]
      cx == [before EXCEPT !.tree = parsed.nodes]
      w0 == [title |-> <<>>, properties |-> << >>, sections |-> <<>>,
             stack |-> closure.stack, occurrences |-> closure.occurrences,
             processed |-> closure.processed, calls |-> <<>>,
             warnings |-> <<>>, aliases |-> <<>>, definitions |-> <<>>,
             thrown |-> FALSE]
  IN  CHOOSE r \in
        {HookLoop(cx, "onDidVisitTree", 0, << >>, 1, w3) :
           w3 \in {VisitAll(cx, 0, w2) :
             w2 \in {HookLoop(cx, "onWillVisitTree", 0, << >>, 1, w1) :
               w1 \in {HookLoop(before, "onWillParseMarkdown", 0, << >>, 1, w0)}}}} :
        TRUE

ActualParse(def, u, note, f, closure) ==
  CHOOSE r \in {ParseTree(def, u, parsed, f, closure) :
                  parsed \in {ParseNote(note)}} : TRUE

ResourceOf(u, w) ==
  Resource(u, w.title, w.properties, w.sections, w.aliases, w.definitions)

\* ------------------------------------------------------------------------
\* createMarkdownParser, twice
\* ------------------------------------------------------------------------
\* the closure a parse leaves to the next parse of the same parser
ClosureOf(w) ==
  [stack |-> w.stack, occurrences |-> w.occurrences, processed |-> w.processed]

\* the calls of parse on the two parsers
MaxCalls == 3

InstanceNotes ==
  { [fm |-> NoFrontMatter,
     blocks |-> << Block("heading", 1, <<"a">>, 0, <<>>),
                   Block("paragraph", 0, <<"p", " ", "^", "y">>, 1, <<>>) >>],
    [fm |-> NoFrontMatter,
     blocks |-> << Block("heading", 2, <<"a">>, 1, <<>>) >>] }

\* both parsers write one closure
ParseOnShared(i, u, note, f) ==
  LET w == ActualParse(impl, u, note, f, closures[i])
  IN  /\ Len(log) < MaxCalls
      /\ returned' = ResourceOf(u, w)
      /\ closures' = [j \in Parsers |-> ClosureOf(w)]
      /\ log' = Append(log, [parser |-> i, uri |-> u, note |-> note,
                             fault |-> f, resource |-> ResourceOf(u, w)])
      /\ UNCHANGED <<impl, phase, markdown, tree, cursor, sectionStack,
                     occurrences, processedNodes, sections, uri, source, fault,
                     title, properties, calls, warnings, cache, aliases,
                     definitions, formatted, workspace, document, collection,
                     actions>>

\* parser i parses a text to its end: the plugins of the parser were
\* created by its createMarkdownParser call, and the section plugin among
\* them works on the stack, slugger and node set of its own closure
ParseOn(i, u, note, f) ==
  LET w == ActualParse(impl, u, note, f, closures[i])
  IN  /\ Len(log) < MaxCalls
      /\ returned' = ResourceOf(u, w)
      /\ closures' = [closures EXCEPT ![i] = ClosureOf(w)]
      /\ log' = Append(log, [parser |-> i, uri |-> u, note |-> note,
                             fault |-> f, resource |-> ResourceOf(u, w)])
      /\ UNCHANGED <<impl, phase, markdown, tree, cursor, sectionStack,
                     occurrences, processedNodes, sections, uri, source, fault,
                     title, properties, calls, warnings, cache, aliases,
                     definitions, formatted, workspace, document, collection,
                     actions>>

NextInstances ==
  \E i \in Parsers, note \in InstanceNotes, f \in ReparseFaults :
    ParseOn(i, <<"/", "n", ".", "m", "d">>, note, f)

SpecInstances == Init /\ [][NextInstances]_vars

\* ------------------------------------------------------------------------
\* Resource.findSection
\* ------------------------------------------------------------------------
\* str.replace(/\s+/g, '-')
RECURSIVE SpacesToHyphen(_)
SpacesToHyphen(str) ==
  IF str = <<>> THEN <<>>
  ELSE IF IsSpace(Head(str))
  THEN <<"-">> \o SpacesToHyphen(TrimLeft(str))
  ELSE <<Head(str)>> \o SpacesToHyphen(Tail(str))

\* normalize of findSection: lower case, runs of white space to '-',
\* characters outside [a-z0-9_-] removed
normalize(str) ==
  LET lowered == [k \in 1..Len(str) |-> Lower(str[k])]
  IN  SelectSeq(SpacesToHyphen(lowered),
                LAMBDA c : c \in (WordChars \ UpperChars) \cup {"-"})

\* the index of the first element of seq that passes the test, 0 when
\* none does (Array.prototype.find, with 0 for undefined)
FindIndex(seq, Test(_)) ==
  LET hits == {i \in 1..Len(seq) : Test(seq[i])}
  IN  IF hits = {} THEN 0 ELSE CHOOSE i \in hits : \A j \in hits : i <= j

\* Resource.findSection: the index of the Section in resource.sections,
\* 0 for null
findSection(resource, fragment) ==
  LET normFragment == normalize(fragment)
  IN  IF fragment = <<>> THEN 0
      ELSE FindIndex(resource.sections,
             LAMBDA sec :
               /\ sec.canonicalId \notin {Undefined, <<>>}
               /\ \/ Includes(sec.linkableIds, fragment)
                  \/ Includes(sec.linkableIds, normFragment))

\* ------------------------------------------------------------------------
\* wikilink-diagnostics
\* ------------------------------------------------------------------------
\* id.startsWith('^')
StartsWithCaret(id) == id # <<>> /\ id[1] = "^"

\* toSlug(label): the slug of a label
toSlug(label) == Slugify(label)

\* MarkdownLink.analyzeLink: the target and the section of [[target#section]]
\* and of [label](target#section)
analyzeLink(link) ==
  LET raw == link.rawText
      inner == IF link.type = "wikilink" THEN SubSeq(raw, 3, Len(raw) - 2)
               ELSE SubSeq(raw, IndexOf(raw, "(", 1) + 1, Len(raw) - 1)
      at == IndexOf(inner, "#", 1)
  IN  IF at = 0 THEN [target |-> inner, section |-> <<>>]
      ELSE [target |-> SubSeq(inner, 1, at - 1),
            section |-> SubSeq(inner, at + 1, Len(inner))]

\* workspace.listByIdentifier: the resources the identifier names
listByIdentifier(ws, identifier) ==
  SelectSeq(ws, LAMBDA r : getName(r.uri) = identifier)

\* workspace.get: the index of the resource of the uri, 0 for none
workspaceGet(ws, u) == FindIndex(ws, LAMBDA r : r.uri = u)

AMBIGUOUS_IDENTIFIER_CODE == "ambiguous-identifier"

UNKNOWN_SECTION_CODE == "unknown-section"

\* new vscode.DiagnosticRelatedInformation(new vscode.Location(uri,
\* new vscode.Position(0, 0)), message)
RelatedInformation(u, message) ==
  [location |-> [uri |-> u, range |-> RangeCreate(0, 0, 0, 0)],
   message |-> message]

createAmbiguousIdentifierDiagnostic(link, targets) ==
  [code |-> AMBIGUOUS_IDENTIFIER_CODE,
   range |-> link.range,
   relatedInformation |->
     [k \in 1..Len(targets) |-> RelatedInformation(targets[k].uri, targets[k].uri)]]

\* the suggestions of the Sections from the i-th on: the label of a
\* heading, the first caret-prefixed identifier of a Section
RECURSIVE Suggestions(_, _)
Suggestions(secs, i) ==
  IF i > Len(secs) THEN <<>>
  ELSE LET section == secs[i]
           blockId == FindIndex(section.linkableIds, StartsWithCaret)
       IN  (IF /\ section.label # <<>>
               /\ Trim(section.label) # <<>>
               /\ toSlug(section.label) = section.canonicalId
            THEN <<section.label>> ELSE <<>>)
           \o (IF blockId # 0 THEN <<section.linkableIds[blockId]>> ELSE <<>>)
           \o Suggestions(secs, i + 1)

\* Array.from(new Set(seq)): the first occurrence of every element
RECURSIVE Unique(_)
Unique(seq) ==
  IF seq = <<>> THEN <<>>
  ELSE LET init == Unique(SubSeq(seq, 1, Len(seq) - 1))
       IN  IF Includes(init, seq[Len(seq)]) THEN init
           ELSE Append(init, seq[Len(seq)])

createUnknownSectionDiagnostic(link, target, sectionId, targetResource) ==
  LET uniqueSuggestions == Unique(Suggestions(targetResource.sections, 1))
  IN  [code |-> UNKNOWN_SECTION_CODE,
       range |-> RangeCreate(link.range.start.line,
                             link.range.start.character + Len(target) + 3,
                             link.range.end.line,
                             link.range.end.character - 2),
       relatedInformation |->
         [k \in 1..Len(uniqueSuggestions) |->
            RelatedInformation(targetResource.uri, uniqueSuggestions[k])]]

\* every link is a wikilink
LinkDiagnosticsOfAnyLink(ws, link) ==
  LET a == analyzeLink(link)
      targets == listByIdentifier(ws, a.target)
  IN  IF Len(targets) > 1
      THEN <<createAmbiguousIdentifierDiagnostic(link, targets)>>
      ELSE IF /\ a.section # <<>>
              /\ Len(targets) = 1
              /\ findSection(targets[1], a.section) = 0
      THEN <<createUnknownSectionDiagnostic(link, a.target, a.section, targets[1])>>
      ELSE <<>>

\* the callback of resource.links.flatMap in updateDiagnostics
LinkDiagnostics(ws, link) ==
  IF link.type # "wikilink" THEN <<>>
  ELSE LET a == analyzeLink(link)
           targets == listByIdentifier(ws, a.target)
       IN  IF Len(targets) > 1
           THEN <<createAmbiguousIdentifierDiagnostic(link, targets)>>
           ELSE IF /\ a.section # <<>>
                   /\ Len(targets) = 1
                   /\ findSection(targets[1], a.section) = 0
           THEN <<createUnknownSectionDiagnostic(link, a.target, a.section,
                                                 targets[1])>>
           ELSE <<>>

RECURSIVE FlatMapLinks(_, _, _)
FlatMapLinks(ws, links, i) ==
  IF i > Len(links) THEN <<>>
  ELSE LinkDiagnostics(ws, links[i]) \o FlatMapLinks(ws, links, i + 1)

\* updateDiagnostics(workspace, parser, document, collection): the
\* collection it leaves; the links of the document are the links
\* parser.parse finds in its text
updateDiagnostics(ws, doc) ==
  LET diagnostics == FlatMapLinks(ws, doc.links, 1)
  IN  IF doc = NoDocument \/ doc.languageId # "markdown" THEN << >>
      ELSE IF Len(diagnostics) > 0 THEN doc.uri :> diagnostics
      ELSE << >>

\* the listener of vscode.window.onDidChangeActiveTextEditor, for the
\* first editor that becomes active
OnDidChangeActiveTextEditor(doc) ==
  /\ workspace # << >>
  /\ document = NoDocument
  /\ document' = doc
  /\ collection' = updateDiagnostics(workspace, doc)
  /\ UNCHANGED <<impl, phase, markdown, tree, cursor, sectionStack,
                 occurrences, processedNodes, sections>>
  /\ UNCHANGED pipeline
  /\ UNCHANGED <<formatted, workspace, actions, closures, log>>

\* the quick fix of a suggestion: a sequence of one action, empty for null
createReplaceSectionCommand(diagnostic, suggestion, ws) ==
  LET t == workspaceGet(ws, suggestion.location.uri)
      s == IF t = 0 THEN 0
           ELSE FindIndex(ws[t].sections,
                          LAMBDA sec : sec.range.start = suggestion.location.range.start)
      section == ws[t].sections[s]
      isBlockId == StartsWithCaret(suggestion.message)
      slug == FindIndex(section.linkableIds, LAMBDA id : ~StartsWithCaret(id))
  IN  IF t = 0 \/ s = 0 THEN <<>>
      ELSE IF ~isBlockId /\ slug = 0 THEN <<>>
      ELSE <<[title |-> [use |-> IF isBlockId THEN "block" ELSE "heading",
                         label |-> section.label],
              command |-> "replace-text",
              value |-> IF isBlockId THEN Substring1(suggestion.message)
                        ELSE section.linkableIds[slug],
              range |-> diagnostic.range,
              diagnostic |-> diagnostic]>>

\* createFindIdentifierCommand
createFindIdentifierCommand(diagnostic, target) ==
  [title |-> [use |-> "resource", label |-> target],
   command |-> "find-identifier",
   value |-> target,
   range |-> RangeCreate(diagnostic.range.start.line,
                         diagnostic.range.start.character + 2,
                         diagnostic.range.end.line,
                         diagnostic.range.end.character - 2),
   diagnostic |-> diagnostic]

\* createUnknownSectionActions and createAmbiguousIdentifierActions, from
\* the i-th related information on
RECURSIVE DiagnosticActions(_, _, _)
DiagnosticActions(diagnostic, ws, i) ==
  IF i > Len(diagnostic.relatedInformation) THEN <<>>
  ELSE (IF diagnostic.code = UNKNOWN_SECTION_CODE
        THEN createReplaceSectionCommand(diagnostic,
                                         diagnostic.relatedInformation[i], ws)
        ELSE <<createFindIdentifierCommand(
                 diagnostic, diagnostic.relatedInformation[i].location.uri)>>)
       \o DiagnosticActions(diagnostic, ws, i + 1)

RECURSIVE FlatMapDiagnostics(_, _, _)
FlatMapDiagnostics(diagnostics, ws, i) ==
  IF i > Len(diagnostics) THEN <<>>
  ELSE DiagnosticActions(diagnostics[i], ws, 1)
       \o FlatMapDiagnostics(diagnostics, ws, i + 1)

\* IdentifierResolver.provideCodeActions, for the diagnostics of the
\* document
ProvideCodeActions ==
  /\ document.uri \in DOMAIN collection
  /\ actions = <<>>
  /\ actions' = FlatMapDiagnostics(collection[document.uri], workspace, 1)
  /\ UNCHANGED <<impl, phase, markdown, tree, cursor, sectionStack,
                 occurrences, processedNodes, sections>>
  /\ UNCHANGED pipeline
  /\ UNCHANGED <<formatted, workspace, document, collection, closures, log>>

\* the links of a document
MaxLinks == 2

\* the target notes: a heading and a block with an upper-case identifier,
\* two headings, the block alone, a heading below a front matter, a heading
\* without a text
TargetNotes ==
  { [fm |-> NoFrontMatter,
     blocks |-> << Block("heading", 2, <<"a">>, 0, <<>>),
                   Block("paragraph", 0, <<"p", " ", "^", "A">>, 1, <<>>) >>],
    [fm |-> NoFrontMatter,
     blocks |-> << Block("heading", 2, <<"a">>, 0, <<>>),
                   Block("heading", 2, <<"i">>, 1, <<>>) >>],
    [fm |-> NoFrontMatter,
     blocks |-> << Block("paragraph", 0, <<"p", " ", "^", "A">>, 1, <<>>) >>],
    [fm |-> << <<"x", ":", " ", "y">> >>,
     blocks |-> << Block("heading", 2, <<"a">>, 0, <<>>) >>],
    [fm |-> NoFrontMatter,
     blocks |-> << Block("heading", 2, <<>>, 0, <<>>) >>] }

\* the uri of the target note
TargetUri == <<"/", "m", ".", "m", "d">>

\* the Resource of a note without text
EmptyNote(u) == Resource(u, getName(u), << >>, <<>>, <<>>, <<>>)

\* the workspace takes the Resource the parser has returned for the target
\* note, between two notes named n
WorkspaceSet ==
  /\ phase = "done"
  /\ workspace = << >>
  /\ workspace' = << EmptyNote(<<"/", "d", "/", "n", ".", "m", "d">>),
                     returned,
                     EmptyNote(<<"/", "n", ".", "m", "d">>) >>
  /\ UNCHANGED <<impl, phase, markdown, tree, cursor, sectionStack,
                 occurrences, processedNodes, sections>>
  /\ UNCHANGED pipeline
  /\ UNCHANGED <<formatted, document, collection, actions, closures, log>>

\* the texts of the links: wikilinks to an ambiguous identifier, to a
\* note, to sections of the note, to no note; a link that is no wikilink
LinkTexts ==
  { [type |-> "wikilink", rawText |-> <<"[", "[", "n", "]", "]">>],
    [type |-> "wikilink", rawText |-> <<"[", "[", "m", "]", "]">>],
    [type |-> "wikilink", rawText |-> <<"[", "[", "m", "#", "a", "]", "]">>],
    [type |-> "wikilink", rawText |-> <<"[", "[", "m", "#", "A", "]", "]">>],
    [type |-> "wikilink", rawText |-> <<"[", "[", "m", "#", "^", "A", "]", "]">>],
    [type |-> "wikilink", rawText |-> <<"[", "[", "m", "#", "x", "]", "]">>],
    [type |-> "wikilink", rawText |-> <<"[", "[", "q", "#", "a", "]", "]">>],
    [type |-> "link", rawText |-> <<"[", "x", "]", "(", "m", "#", "x", ")">>] }

\* the documents of the editor: one link a line
EditorDocuments ==
  {[uri |-> <<"/", "e", ".", "m", "d">>, languageId |-> lang,
    links |-> [k \in 1..Len(ts) |->
                 [type |-> ts[k].type, rawText |-> ts[k].rawText,
                  range |-> RangeCreate(k - 1, 0, k - 1, Len(ts[k].rawText))]]] :
     lang \in {"markdown", "plaintext"},
     ts \in UNION {[1..n -> LinkTexts] : n \in 1..MaxLinks}}

\* the target note is parsed and enters the workspace, a document becomes
\* active in the editor, the provider is asked for its code actions
NextDiagnostics ==
  \/ phase = "idle" /\ \E note \in TargetNotes : Parse(TargetUri, note, NoFault)
  \/ OnWillParseMarkdownLoop
  \/ BuildTree
  \/ WillVisitTreeLoop
  \/ VisitNode
  \/ DidVisitTreeLoop
  \/ ReturnNote
  \/ WorkspaceSet
  \/ \E doc \in EditorDocuments : OnDidChangeActiveTextEditor(doc)
  \/ ProvideCodeActions

SpecDiagnostics == Init /\ [][NextDiagnostics]_vars

\* ------------------------------------------------------------------------
\* C13: one parser, many parses
\* ------------------------------------------------------------------------
\* C13: on a long-lived parser every parse of a text returns the Resource
\* a parser that has parsed nothing before returns for it, whatever was
\* parsed before: the closure of the section plugin (stack, slugger,
\* attributed nodes) is reset in onWillVisitTree.
ReparseYieldsSameResource ==
  phase = "done" =>
    returned = ResourceOf(uri, ActualParse(impl, uri, source, fault, FreshClosure))

\* a parse is about to walk a tree with a heading whose slug the slugger
\* still holds from the parse before, which also left a heading on the
\* stack
StaleClosureAtParse ==
  /\ phase = "willVisit"
  /\ sectionStack # <<>>
  /\ \E n \in 1..Len(tree) :
       tree[n].type = "heading" /\ Slugify(tree[n].text) \in DOMAIN occurrences

\* ------------------------------------------------------------------------
\* C14-C15: the dispatch of the hooks
\* ------------------------------------------------------------------------
\* the order the specification gives the plugins
StatedOrder ==
  <<"title", "wikilink", "definitions", "tags", "aliases", SectionPlugin, "extra">>

\* the invocations of hook h on node n, by the plugins that define the
\* hook, in the stated order
RECURSIVE StatedCalls(_, _, _)
StatedCalls(h, n, i) ==
  IF i > Len(StatedOrder) THEN <<>>
  ELSE (IF h \in Hooks(StatedOrder[i])
        THEN <<[plugin |-> StatedOrder[i], hook |-> h, node |-> n]>> ELSE <<>>)
       \o StatedCalls(h, n, i + 1)

\* the invocations of the traversal for the nodes from n to last
RECURSIVE StatedVisits(_, _)
StatedVisits(n, last) ==
  IF n > last THEN <<>>
  ELSE (IF n # 0 /\ tree[n].type = "yaml" /\ parseYAML(tree[n].value).ok
        THEN StatedCalls("onDidFindProperties", n, 1) ELSE <<>>)
       \o StatedCalls("visit", n, 1)
       \o StatedVisits(n + 1, last)

\* the invocations of a whole parse
StatedLifecycle ==
  StatedCalls("onWillParseMarkdown", 0, 1) \o StatedCalls("onWillVisitTree", 0, 1)
    \o StatedVisits(0, Len(tree)) \o StatedCalls("onDidVisitTree", 0, 1)

\* the invocations of the hook that throws during this parse
FaultyCalls ==
  SelectSeq(calls, LAMBDA c : [plugin |-> c.plugin, hook |-> c.hook] = fault)

\* the warnings handleError logged
HookWarnings == SelectSeq(warnings, LAMBDA x : x.message = "Error while executing")

\* C14: a hook that throws is caught and logged with the name of the
\* plugin and of the hook, once for each of its calls; the exception never
\* leaves parse; the hooks are invoked for the same nodes in the same order
\* as in a parse in which nothing throws; and parse returns the note with
\* what the other plugins built: the properties, the title unless the
\* title plugin is the one that throws, the sections unless the section
\* plugin is.
HookFaultIsolated ==
  /\ phase # "thrown"
  /\ Len(HookWarnings) = Len(FaultyCalls)
  /\ \A i \in 1..Len(HookWarnings) :
       /\ HookWarnings[i].plugin = FaultyCalls[i].plugin
       /\ HookWarnings[i].fnName = FaultyCalls[i].hook
  /\ phase = "done" =>
       LET clean == ActualParse(impl, uri, source, NoFault, FreshClosure)
       IN  /\ calls = clean.calls
           /\ returned = Resource(uri, title, properties, sections, aliases, definitions)
           /\ returned.properties = clean.properties
           /\ fault.plugin # "title" => returned.title = clean.title
           /\ fault.plugin # SectionPlugin => returned.sections = clean.sections

\* a visit hook threw for several nodes of a note with a heading and a
\* front matter, and parse returned a Resource with a Section
FaultyVisitReturned ==
  /\ phase = "done"
  /\ fault = [plugin |-> "extra", hook |-> "visit"]
  /\ Len(HookWarnings) >= 2
  /\ returned.sections # <<>>
  /\ returned.properties # << >>

\* C15: within one parse the hooks are invoked in this order: every
\* plugin's onWillParseMarkdown before the tree is built, then every
\* plugin's onWillVisitTree once before any visit, then the calls of the
\* traversal node by node, then every plugin's onDidVisitTree once after
\* the last visit; in each phase the plugins are called in the order title,
\* wikilink, definitions, tags, aliases, section plugin, extra plugin.
HookLifecycleOrder ==
  /\ phase = "willParse" => calls = <<>> /\ tree = <<>>
  /\ phase = "parse" =>
       calls = StatedCalls("onWillParseMarkdown", 0, 1) /\ tree = <<>>
  /\ phase = "willVisit" => calls = StatedCalls("onWillParseMarkdown", 0, 1)
  /\ phase = "visiting" =>
       calls = StatedCalls("onWillParseMarkdown", 0, 1)
                 \o StatedCalls("onWillVisitTree", 0, 1)
                 \o StatedVisits(0, cursor - 1)
  /\ phase = "return" => calls = StatedLifecycle

\* the traversal of a note with a decodable front matter and a heading
\* is over and every hook has been called
LifecycleCompleted ==
  /\ phase = "return"
  /\ Len(tree) >= 2
  /\ tree[1].type = "yaml"
  /\ parseYAML(tree[1].value).ok
  /\ \E i \in 1..Len(calls) : calls[i].hook = "onDidFindProperties"

\* ------------------------------------------------------------------------
\* C16: onWillParseMarkdown
\* ------------------------------------------------------------------------
\* C16: the text an onWillParseMarkdown hook returns is the text the tree
\* is built from: once the tree is built, it is the tree of the text the
\* extra plugin's hook returned, unless that hook threw.
TreeBuiltFromReturnedText ==
  (phase \in {"willVisit", "visiting", "return", "done"}
     /\ fault # [plugin |-> "extra", hook |-> "onWillParseMarkdown"])
    => tree = ParseNote(ExtraOnWillParseMarkdown(source)).nodes

\* ------------------------------------------------------------------------
\* C17-C18: front matter and title
\* ------------------------------------------------------------------------
\* the note being parsed has a front matter that cannot be decoded
MalformedFrontMatter ==
  source.fm # NoFrontMatter /\ ~parseYAML(source.fm).ok

\* the warnings of a front matter that could not be decoded
YamlWarnings == SelectSeq(warnings, LAMBDA x : x.message = "Error while parsing YAML")

\* C17: when the front matter cannot be decoded, parse still completes:
\* no exception leaves it, the properties stay empty, no plugin receives
\* onDidFindProperties, one warning is logged once the yaml node has been
\* visited, and the traversal goes on, so that every heading the section
\* plugin pushes has its Section in the returned Resource.
FrontMatterFailureRecovered ==
  MalformedFrontMatter =>
    /\ phase # "thrown"
    /\ properties = << >>
    /\ \A i \in 1..Len(calls) : calls[i].hook # "onDidFindProperties"
    /\ ((phase = "visiting" /\ cursor > 1) \/ phase \in {"return", "done"})
         => (Len(YamlWarnings) = 1 /\ YamlWarnings[1].file = uri)
    /\ phase = "done" =>
         /\ returned.properties = << >>
         /\ fault.plugin # SectionPlugin =>
              \A n \in VisitedHeadings :
                \E i \in 1..Len(returned.sections) :
                  returned.sections[i].range.start = HeadingStart(n)

\* a parse of a note with a malformed front matter and a heading has
\* returned a Resource with the heading's Section
MalformedFrontMatterParsed ==
  /\ phase = "done"
  /\ MalformedFrontMatter
  /\ fault = NoFault
  /\ returned.sections # <<>>

\* the title the front matter defines: a text that is not empty
FrontMatterTitle ==
  LET y == parseYAML(source.fm)
  IN  IF source.fm # NoFrontMatter /\ y.ok /\ YamlTitle \in DOMAIN y.properties
         /\ y.properties[YamlTitle] \notin {Null, <<>>}
      THEN y.properties[YamlTitle] ELSE <<>>

\* the level-1 headings with a text
TitledHeadings ==
  {n \in 1..Len(tree) :
     tree[n].type = "heading" /\ tree[n].depth = 1 /\ tree[n].text # <<>>}

\* C18: the title of the returned Resource is the title of the front
\* matter when the front matter defines one that is not empty; else the
\* text of the first level-1 heading that has a text; else the file name
\* of the document's uri. (Unless the title plugin is the one that throws.)
TitlePrecedence ==
  (phase = "done" /\ fault.plugin # "title") =>
    returned.title =
      IF FrontMatterTitle # <<>> THEN FrontMatterTitle
      ELSE IF TitledHeadings # {}
           THEN tree[CHOOSE n \in TitledHeadings : \A k \in TitledHeadings : n <= k].text
           ELSE getName(uri)

\* a note with a front-matter title and a level-1 heading with a text has
\* been parsed, and its title is the title of the front matter
TitleOverHeading ==
  /\ phase = "done"
  /\ fault = NoFault
  /\ FrontMatterTitle # <<>>
  /\ TitledHeadings # {}
  /\ returned.title = FrontMatterTitle

\* ------------------------------------------------------------------------
\* C19-C20: the parser cache
\* ------------------------------------------------------------------------
\* C19: a call of the cached parser whose uri has an entry with the
\* checksum of the given text returns the Resource of that entry, invokes
\* no hook (no invocation is recorded and the closure of the section
\* plugin is untouched) and leaves the cache as it is; any other call runs
\* a full parse (every hook of the lifecycle is invoked), stores the
\* checksum and the fresh Resource under the uri and returns that Resource.
CachedParseHitOrMiss ==
  [][/\ phase \in {"idle", "done"} =>
          IF uri' \in DOMAIN cache /\ cache[uri'].checksum = hash(NoteText(source'))
          THEN /\ returned' = cache[uri'].resource
               /\ calls' = <<>>
               /\ cache' = cache
               /\ phase' = "done"
               /\ UNCHANGED <<sectionStack, occurrences, processedNodes>>
          ELSE /\ phase' = "willParse"
               /\ calls' = <<>>
               /\ cache' = cache
     /\ phase = "return" =>
          LET fresh == ResourceOf(uri, ActualParse(impl, uri, source, NoFault, FreshClosure))
          IN  /\ calls = StatedLifecycle
              /\ returned' = fresh
              /\ cache' = (uri :> ParserCacheEntry(hash(NoteText(source)), fresh)) @@ cache
              /\ phase' = "done"]_vars

\* a call has just returned the cached Resource of a text with a heading
CacheHitReturned ==
  /\ phase = "done"
  /\ calls = <<>>
  /\ uri \in DOMAIN cache
  /\ returned = cache[uri].resource
  /\ returned.sections # <<>>
  /\ occurrences = << >>

\* C20: the cache holds at most one entry per uri; when a call of parse
\* returns, the entry of its uri holds the checksum of the text of that
\* call and the Resource the call returned, whole, and the entries of the
\* other uris are as they were; no other step changes the cache.
CacheHoldsLastParse ==
  [][IF phase' = "done"
     THEN /\ DOMAIN cache' = DOMAIN cache \cup {uri'}
          /\ DOMAIN cache' \subseteq Uris
          /\ cache'[uri'] = ParserCacheEntry(hash(NoteText(source')), returned')
          /\ \A u \in DOMAIN cache \ {uri'} : cache'[u] = cache[u]
     ELSE cache' = cache]_vars

\* both uris have an entry, with different checksums, and the last call
\* parsed its text
TwoEntriesAfterMiss ==
  /\ phase = "done"
  /\ calls # <<>>
  /\ DOMAIN cache = Uris
  /\ \E u, v \in Uris : cache[u].checksum # cache[v].checksum

\* ------------------------------------------------------------------------
\* C21: the cached parser against the parser without a cache
\* ------------------------------------------------------------------------
\* the checksums of the texts tell the texts apart
ChecksumsDistinct ==
  \A a, b \in CacheNotes : hash(NoteText(a)) = hash(NoteText(b)) => a = b

\* C21: whatever calls went before, the Resource a call of the cached
\* parser returns for a uri and a text is the Resource the parser without
\* a cache returns for that uri and text (the checksums of different texts
\* being different): no stale Resource is returned.
CachedEqualsUncached ==
  (ChecksumsDistinct /\ phase = "done") =>
    returned = ResourceOf(uri, ActualParse(impl, uri, source, NoFault, FreshClosure))

\* a call was answered from the cache while the cache holds, for the other
\* uri, the Resource of another text
HitBesideOtherText ==
  /\ phase = "done"
  /\ calls = <<>>
  /\ DOMAIN cache = Uris
  /\ \A v \in Uris \ {uri} :
       /\ cache[v].checksum # cache[uri].checksum
       /\ cache[v].resource.sections # returned.sections

VisitCalls == SelectSeq(calls, LAMBDA c : c.hook = "visit")

\* the plugins that define a visit hook, in the stated order
Visitors == SelectSeq(StatedOrder, LAMBDA p : "visit" \in Hooks(p))

\* the parent of a node of the tree; the root has none
ParentOf(n) == IF n = 0 THEN -1 ELSE tree[n].parent

\* the place of the visit call of plugin p on node n
VisitPlace(p, n) ==
  CHOOSE i \in 1..Len(VisitCalls) : VisitCalls[i].plugin = p /\ VisitCalls[i].node = n

DocumentDefinitions ==
  LET ns == SelectSeq([n \in 1..Len(tree) |-> n], LAMBDA n : tree[n].type = "definition")
  IN  [k \in 1..Len(ns) |->
         [label |-> tree[ns[k]].label, url |-> tree[ns[k]].url,
          title |-> tree[ns[k]].title,
          range |-> astPositionToFoamRange(tree[ns[k]].position)]]

\* the end line of the document
DocumentEndLine == Len(markdown) - 1

\* definition k starts at most 2 lines above the end line of the
\* definition that follows it, or of the document when it is the last
StartsNearNext(all, k) ==
  IF k = Len(all) THEN all[k].range.start.line >= DocumentEndLine - 2
  ELSE all[k].range.start.line >= all[k + 1].range.end.line - 2

\* the longest suffix of the definitions in which each is near the next
TrailingBlock(all) ==
  LET first == CHOOSE k \in 1..(Len(all) + 1) :
                 /\ \A i \in k..Len(all) : StartsNearNext(all, i)
                 /\ k > 1 => ~StartsNearNext(all, k - 1)
  IN  SubSeq(all, first, Len(all))

\* C22: after parse the definitions of the Resource are the contiguous
\* trailing block of the reference definitions of the document, in
\* document order: the longest suffix in which the last definition starts
\* at most 2 lines above the end line of the document and every other one
\* at most 2 lines above the end line of the definition that follows it.
TrailingDefinitionsKept ==
  /\ phase \in {"return", "done"} => definitions = TrailingBlock(DocumentDefinitions)
  /\ phase = "done" => returned.definitions = TrailingBlock(DocumentDefinitions)

\* of three definitions the first, though right above the second, is
\* dropped with it, and the third, of two lines, is kept
DefinitionsAboveGapDropped ==
  /\ phase = "done"
  /\ Len(DocumentDefinitions) = 3
  /\ StartsNearNext(DocumentDefinitions, 1)
  /\ ~StartsNearNext(DocumentDefinitions, 2)
  /\ Len(returned.definitions) = 1
  /\ returned.definitions[1].range.end.line > returned.definitions[1].range.start.line

\* ------------------------------------------------------------------------
\* C23: NoteLinkDefinition.format
\* ------------------------------------------------------------------------
\* the url of the formatted text is wrapped in '<' and '>'
UrlWrapped ==
  LET at == Len(definitions[1].label) + 5
      url == definitions[1].url
  IN  /\ Len(formatted) >= at + Len(url) + 1
      /\ formatted[at] = "<"
      /\ SubSeq(formatted, at + 1, at + Len(url)) = url
      /\ formatted[at + Len(url) + 1] = ">"

\* C23: format wraps the url in '<' and '>' if and only if the url has a
\* space, at any position.
UrlWrappedIffSpace ==
  formatted # Undefined => (UrlWrapped <=> Includes(definitions[1].url, " "))

\* ------------------------------------------------------------------------
\* C24: the aliases of the Resource
\* ------------------------------------------------------------------------
\* the entries of the value of an alias key: the strings of a list, or
\* the parts of a comma-separated string
AliasEntries(v) ==
  IF IsArray(v) THEN Tail(v)
  ELSE LET parts == Split(v, ",") IN [k \in 1..Len(parts) |-> Trim(parts[k])]

\* C24: the keys 'alias' and 'aliases' are both consumed: when the front
\* matter gives either key a comma-separated string or a list of strings,
\* the aliases of the returned Resource are its entries, one Alias each,
\* in order.
AliasKeysConsumed ==
  phase = "done" =>
    LET props == parseYAML(source.fm).properties
    IN  \A key \in {YamlAlias, YamlAliases} :
          (key \in DOMAIN props /\ props[key] # Null) =>
            [k \in 1..Len(returned.aliases) |-> returned.aliases[k].title]
              = AliasEntries(props[key])

\* ------------------------------------------------------------------------
\* C28: two parsers
\* ------------------------------------------------------------------------
\* the calls among the first k of the log that were made on parser i
CallsOn(i, k) == SelectSeq(SubSeq(log, 1, k), LAMBDA c : c.parser = i)

\* the calls cs run alone on a parser that has parsed nothing: the closure
\* they leave, and the Resource of the last of them
RECURSIVE RunAlone(_, _, _)
RunAlone(cs, closure, resource) ==
  IF cs = <<>> THEN [closure |-> closure, resource |-> resource]
  ELSE LET c == Head(cs)
           w == ActualParse(impl, c.uri, c.note, c.fault, closure)
       IN  RunAlone(Tail(cs), ClosureOf(w), ResourceOf(c.uri, w))

BlockSectionsOf(r) ==
  {i \in 1..Len(r.sections) :
     /\ r.sections[i].canonicalId # Undefined
     /\ ~IsSlugOf(r.sections[i].canonicalId, r.sections[i].label)}

\* C25: in every resource of the workspace, findSection resolves the
\* identifier X of a block Section and the fragment ^X to the same
\* Section, and every identifier in the linkableIds of a Section with a
\* defined canonicalId resolves to a Section.
FragmentsResolveEitherWay ==
  \A t \in 1..Len(workspace) :
    LET r == workspace[t]
    IN  /\ \A i \in BlockSectionsOf(r) :
             LET X == r.sections[i].canonicalId
             IN  /\ findSection(r, X) # 0
                 /\ findSection(r, <<"^">> \o X) = findSection(r, X)
        /\ \A i \in 1..Len(r.sections) :
             r.sections[i].canonicalId # Undefined =>
               \A k \in 1..Len(r.sections[i].linkableIds) :
                 findSection(r, r.sections[i].linkableIds[k]) # 0

\* ------------------------------------------------------------------------
\* C26: the diagnostics of a document
\* ------------------------------------------------------------------------
\* the diagnostics the collection holds for the document
DocumentDiagnostics ==
  IF document.uri \in DOMAIN collection THEN collection[document.uri] ELSE <<>>

\* the diagnostics on the line of the k-th link of the document
DiagnosticsOfLink(k) ==
  SelectSeq(DocumentDiagnostics,
            LAMBDA d : d.range.start.line = document.links[k].range.start.line)

\* the resources of the workspace the identifier matches
Matching(identifier) ==
  {t \in 1..Len(workspace) : getName(workspace[t].uri) = identifier}

\* the k-th link is a wikilink to one resource, with a section fragment
\* that findSection does not resolve there
UnknownSection(k) ==
  LET a == analyzeLink(document.links[k])
  IN  /\ document.links[k].type = "wikilink"
      /\ Cardinality(Matching(a.target)) = 1
      /\ a.section # <<>>
      /\ \A t \in Matching(a.target) : findSection(workspace[t], a.section) = 0

\* the k-th link is a wikilink whose identifier matches several resources
Ambiguous(k) ==
  /\ document.links[k].type = "wikilink"
  /\ Cardinality(Matching(analyzeLink(document.links[k]).target)) > 1

\* the diagnostics are, link by link, the ones of the claim
OneDiagnosticPerBrokenLink ==
  /\ \A k \in 1..Len(document.links) :
       LET ds == DiagnosticsOfLink(k)
       IN  IF Ambiguous(k)
           THEN Len(ds) = 1 /\ ds[1].code = AMBIGUOUS_IDENTIFIER_CODE
           ELSE IF UnknownSection(k)
           THEN Len(ds) = 1 /\ ds[1].code = UNKNOWN_SECTION_CODE
           ELSE ds = <<>>
  /\ \A i \in 1..Len(DocumentDiagnostics) :
       \E k \in 1..Len(document.links) :
         DocumentDiagnostics[i].range.start.line = document.links[k].range.start.line

\* C26: once updateDiagnostics has run on the document of the editor, the
\* collection holds, for every wikilink of a Markdown document, exactly
\* one ambiguous-identifier diagnostic when its target matches several
\* resources, exactly one unknown-section diagnostic when it matches one
\* resource and findSection does not resolve its section fragment there,
\* and no diagnostic otherwise; a link that is no wikilink gets none, and
\* a document that is no Markdown gets none.
DiagnosticsPerLink ==
  document # NoDocument =>
    IF document.languageId = "markdown" THEN OneDiagnosticPerBrokenLink
    ELSE collection = << >>

\* the diagnostics of a document with an ambiguous wikilink and a
\* wikilink to an unknown section
BothDiagnostics ==
  /\ Len(document.links) = 2
  /\ Len(DocumentDiagnostics) = 2
  /\ DocumentDiagnostics[1].code # DocumentDiagnostics[2].code

\* the diagnostic of a document with a resolved wikilink or a link that is
\* no wikilink beside a broken one
OneBrokenLinkOfTwo ==
  /\ Len(document.links) = 2
  /\ Len(DocumentDiagnostics) = 1

\* ------------------------------------------------------------------------
\* C27: the quick fixes of an unknown section
\* ------------------------------------------------------------------------
\* the Section was suggested by the message: its label for a heading, one
\* of its identifiers for a caret-prefixed block id
SuggestedBy(section, message) ==
  IF StartsWithCaret(message) THEN Includes(section.linkableIds, message)
  ELSE section.label = message /\ toSlug(section.label) = section.canonicalId

\* the quick fixes of every unknown-section diagnostic of the document are
\* one for each of its suggestions, in order, each replacing the fragment
\* of the link with an identifier of a Section the suggestion names
QuickFixPerSuggestion ==
  \A i \in 1..Len(DocumentDiagnostics) :
    LET d == DocumentDiagnostics[i]
        fixes == SelectSeq(actions, LAMBDA a : a.diagnostic = d)
    IN  d.code = UNKNOWN_SECTION_CODE =>
          /\ Len(fixes) = Len(d.relatedInformation)
          /\ \A k \in 1..Len(fixes) :
               /\ fixes[k].range = d.range
               /\ \E t \in 1..Len(workspace) :
                    /\ workspace[t].uri = d.relatedInformation[k].location.uri
                    /\ \E j \in 1..Len(workspace[t].sections) :
                         /\ SuggestedBy(workspace[t].sections[j],
                                        d.relatedInformation[k].message)
                         /\ Includes(workspace[t].sections[j].linkableIds,
                                     fixes[k].value)

\* C27: for every unknown-section diagnostic the code-action provider
\* returns one quick fix for each suggested Section of the target (each
\* heading label, each caret-prefixed block id), and the fix replaces the
\* broken fragment with an identifier of the Section that was suggested.
QuickFixesNameSuggestedSection ==
  [][ProvideCodeActions => QuickFixPerSuggestion']_vars

\* ------------------------------------------------------------------------
\* C31: the heading Sections cover the document
\* ------------------------------------------------------------------------
\* the first line of the first heading that was pushed
FirstHeadingLine ==
  HeadingStart(CHOOSE n \in VisitedHeadings : \A m \in VisitedHeadings : n <= m).line

\* the line lies between the start line and the end line of a heading Section
CoveredByHeading(l) ==
  \E i \in HeadingSections :
    sections[i].range.start.line <= l /\ l <= sections[i].range.end.line

\* C31: in the returned Resource every line from the first heading down to
\* the last line before the end position of the document lies in the range
\* of some heading Section: together with the preamble above the first
\* heading the heading Sections leave no line uncovered.
HeadingSectionsCoverDocument ==
  (phase = "done" /\ VisitedHeadings # {}) =>
    \A l \in FirstHeadingLine..(Len(markdown) - 2) : CoveredByHeading(l)

\* ------------------------------------------------------------------------
\* C35: the paragraph of a full-line identifier
\* ------------------------------------------------------------------------
\* the paragraphs whose whole trimmed text is a caret-prefixed token
IdentifierParagraphs ==
  {n \in 1..Len(tree) :
     tree[n].type = "paragraph" /\ IsFullLineId(Trim(tree[n].text))}

\* C35: a paragraph whose whole trimmed text is a caret-prefixed token is
\* never the block of a Section: no emitted Section has the span of the
\* identifier paragraph as its range.
IdentifierParagraphNotEmitted ==
  \A n \in IdentifierParagraphs : SectionsSpanning(n) = {}

\* ------------------------------------------------------------------------
\* C38: slugs are assigned in closing order
\* ------------------------------------------------------------------------
\* the place in the walk heading n is closed at: its closer, or the end
ClosedAt(n) == IF Closers(n) = {} THEN Len(tree) + 1 ELSE Closer(n)

\* heading m is popped before heading n: at an earlier place or, at the
\* same place, from higher up the stack
PoppedBefore(m, n) ==
  ClosedAt(m) < ClosedAt(n) \/ (ClosedAt(m) = ClosedAt(n) /\ m > n)

\* the headings popped before the heading of Section i whose labels slug alike
SlugRivals(i) ==
  {j \in HeadingSections :
     /\ j # i
     /\ Slugify(sections[j].label) = Slugify(sections[i].label)
     /\ PoppedBefore(HeadingOf(j), HeadingOf(i))}

\* the slug the generator gives a label it has been called with k times
SuffixedSlug(label, k) ==
  IF k = 0 THEN Slugify(label)
  ELSE Slugify(label) \o <<"-">> \o NatToString(k)

\* C38: the slug generator has been called once for every heading Section
\* emitted so far and for no heading still open, and the slug of a heading
\* is decided by the order of closing: it carries as suffix the number of
\* headings with the same slugged label that were popped before it, so the
\* unsuffixed slug goes to the one closed first.
SlugsInClosingOrder ==
  Walking =>
    /\ Cardinality(DOMAIN occurrences) = Cardinality(HeadingSections)
    /\ \A i \in HeadingSections :
         sections[i].canonicalId
           = SuffixedSlug(sections[i].label, Cardinality(SlugRivals(i)))

\* a heading nested under an open heading of the same label, later in the
\* document, got the unsuffixed slug and its ancestor the suffixed one
NestedHeadingSluggedFirst ==
  /\ phase = "done"
  /\ \E i, j \in HeadingSections :
       /\ NestedUnder(HeadingOf(j), HeadingOf(i))
       /\ sections[i].label = sections[j].label
       /\ sections[j].canonicalId = Slugify(sections[j].label)
       /\ sections[i].canonicalId = SuffixedSlug(sections[i].label, 1)

\* ------------------------------------------------------------------------
\* C32-C33: headings with nothing but an identifier, headings without a label
\* ------------------------------------------------------------------------
\* the pushed headings whose text is one block-id token and nothing else
IdOnlyHeadings ==
  {n \in VisitedHeadings : IsFullLineId(Trim(tree[n].text))}

\* the entries of the heading stack that heading n pushed
StackEntriesOf(n) ==
  {k \in 1..Len(sectionStack) : sectionStack[k].start = HeadingStart(n)}

AtMalformedHeading ==
  /\ phase = "visiting"
  /\ cursor <= Len(tree)
  /\ tree[cursor].type = "heading"
  /\ (tree[cursor].text = <<>> \/ tree[cursor].depth = 0)

\* C33: visiting a heading node with an empty label or no level leaves
\* the heading stack, the slug generator and the emitted Sections as they
\* were: it opens no section and closes none.
MalformedHeadingSkipped ==
  [][(AtMalformedHeading /\ VisitHeading)
       => UNCHANGED <<sectionStack, occurrences, sections>>]_vars

\* a heading without a label was visited under an open heading of greater
\* or equal level, which is still open
EmptyHeadingLeftOpenOne ==
  /\ phase = "visiting"
  /\ cursor > 1
  /\ tree[cursor - 1].type = "heading"
  /\ tree[cursor - 1].text = <<>>
  /\ sectionStack # <<>>
  /\ sectionStack[Len(sectionStack)].level >= tree[cursor - 1].depth

\* ------------------------------------------------------------------------
\* C34: the descendants of an attributed node
\* ------------------------------------------------------------------------
\* the list items and paragraphs a Section was emitted for
AttributedBlocks ==
  {n \in 1..Len(tree) :
     /\ Walking
     /\ tree[n].type \in {"listItem", "paragraph"}
     /\ SectionsSpanning(n) # {}}

\* C34: once a list item or paragraph has its Section, every node below it
\* is marked attributed and none of the list items and paragraphs below it
\* has a Section of its own: a list item nested under a list item that
\* produced a Section yields none.
DescendantsOfBlockAttributed ==
  \A n \in AttributedBlocks :
    \A m \in Subtree(tree, n) \ {n} :
      /\ m \in processedNodes
      /\ tree[m].type \in {"listItem", "paragraph"} => SectionsSpanning(m) = {}

\* ------------------------------------------------------------------------
\* C36: a list or blockquote that ends with an identifier line
\* ------------------------------------------------------------------------
\* the source lines of the text a node spans
RawLines(n) == Split(tree[n].raw, "\n")

\* the lists and blockquotes whose last line is a lone caret-prefixed token
TrailingIdBlocks ==
  {n \in 1..Len(tree) :
     /\ tree[n].type \in {"list", "blockquote"}
     /\ Len(RawLines(n)) > 1
     /\ IsFullLineId(Trim(RawLines(n)[Len(RawLines(n))]))}

\* the identifier of such a block, without its caret
TrailingId(n) == Substring1(Trim(RawLines(n)[Len(RawLines(n))]))

\* the Sections that give the identifier of the block to the whole block
WholeBlockSections(n) ==
  {i \in 1..Len(sections) :
     /\ sections[i].canonicalId = TrailingId(n)
     /\ sections[i].range.start = astPositionToFoamRange(tree[n].position).start}

\* C36: in the returned Resource a list or blockquote whose last line is a
\* lone caret-prefixed token has exactly one Section for the whole block:
\* its label is the text of the block without the identifier line and its
\* range ends before the identifier line.
TrailingIdAttributedToBlock ==
  phase = "done" =>
    \A n \in TrailingIdBlocks :
      /\ Cardinality(WholeBlockSections(n)) = 1
      /\ \A i \in WholeBlockSections(n) :
           /\ sections[i].label
                = JoinLines(SubSeq(RawLines(n), 1, Len(RawLines(n)) - 1))
           /\ PosLeq(sections[i].range.end,
                     PositionCreate(astPositionToFoamRange(tree[n].position).end.line, 0))

\* ------------------------------------------------------------------------
\* C37: the characters of an identifier
\* ------------------------------------------------------------------------
\* the token the text of node n ends with: a caret and a run of word
\* characters, dots, hyphens and colons, at the start or after a space
TokenOf(n) == MatchInlineId(tree[n].text, TRUE)

\* the headings, paragraphs and list items whose text ends with a token
TokenNodes ==
  {n \in 1..Len(tree) :
     /\ tree[n].type \in {"heading", "paragraph", "listItem"}
     /\ TokenOf(n).found}

\* the token of node n was taken as the identifier of a Section and is no
\* part of that Section's label
TokenRecognised(n) ==
  \E i \in 1..Len(sections) :
    /\ Includes(sections[i].linkableIds, Substring1(TokenOf(n).id))
    /\ Trim(TokenOf(n).rest) # <<>> => sections[i].label = Trim(TokenOf(n).rest)
    /\ tree[n].type = "heading" =>
         sections[i].range.start = HeadingStart(n)
    /\ tree[n].type # "heading" => sections[i].canonicalId = Substring1(TokenOf(n).id)

\* C37: in the returned Resource every heading, paragraph and list item
\* whose text ends with a caret followed by word characters, underscores,
\* dots, hyphens and colons, and every paragraph that is nothing but such
\* a token, has given the whole token to a Section as its identifier, and
\* the label of that Section is the text without the token.
TokenCharactersRecognised ==
  phase = "done" => \A n \in TokenNodes : TokenRecognised(n)

\* ------------------------------------------------------------------------
\* C39: the ranges of the Sections are well formed
\* ------------------------------------------------------------------------
WellFormedRange(r) ==
  /\ r.start.line >= 0
  /\ r.start.character >= 0
  /\ r.end.line >= 0
  /\ r.end.character >= 0
  /\ PosLeq(r.start, r.end)

====
